---- MODULE Spec2Model ----
(***************************************************************************)
(* Verification model of agent_config_security:                            *)
(*   - config/injector.py    SandboxInjector, TemporaryCredential          *)
(*   - security/credential.py SecurityCredentialManager, CredentialRecord  *)
(*   - security/audit.py     the events the two components hand to         *)
(*                           AuditLogger.log                               *)
(* Time is a discrete clock `now` (datetime.utcnow()), advanced by Tick.   *)
(* Strings that the code concatenates or compares character-wise (names,   *)
(* environment keys) are sequences of one-character strings.               *)
(* An Optional[int] is <<>> (None) or <<n>>.                               *)
(***************************************************************************)
EXTENDS Integers, Sequences, FiniteSets, TLC

VARIABLES
    now,              \* datetime.utcnow(), in clock ticks
    ret,              \* [op, val]: the last method call and what it returned
    audit,            \* the events the last call handed to AuditLogger.log, in order
                      \* (the audit trail is append-only: it is their concatenation)
    \* ---- SandboxInjector ----
    default_ttl,      \* SandboxInjector._default_ttl
    default_max_uses, \* SandboxInjector._default_max_uses
    credentials,      \* SandboxInjector._credentials : id -> TemporaryCredential
    next_id,          \* number of ids _generate_id has produced so far
    environ,          \* os.environ : key -> value
    injected_env_keys,\* SandboxInjector._injected_env_keys, an insertion-ordered dict
    thread_local,     \* SandboxInjector._thread_local : thread -> (key -> value)
    ctx,              \* the inject_context scope in progress, if any
    \* ---- SecurityCredentialManager ----
    records,          \* SecurityCredentialManager._records : id -> CredentialRecord
    reg_next_id,      \* number of ids the manager's _generate_id has produced
    leaks,            \* SecurityCredentialManager._leaks
    access_history,   \* SecurityCredentialManager._access_history : id -> deque
    leak_pc,          \* position inside report_leak / scan_for_leaks
    \* ---- threads calling into one SandboxInjector or one AuditLogger ----
    thr,              \* thread -> the call it is in and the statement it is at
    \* ---- AuditLogger ----
    log_cfg,          \* constructor arguments: log_file, signing_key, filter_sensitive,
                      \* buffer_size, auto_flush
    log_buffer,       \* AuditLogger._buffer
    log_store,        \* the lines of the log file, in file order
    log_n,            \* number of events AuditLogger.log has built so far
    io_errors,        \* number of flushes that failed with an I/O error
    \* ---- SecureBytes, ProtectedString, MemoryGuard ----
    heap,             \* the SecureBytes and ProtectedString objects made so far
    guard_scope,      \* where the program is with respect to a `with guard:` block
    guard_protected,  \* MemoryGuard._protected, as positions in heap
    \* ---- FileVault ----
    vault_file,       \* the text of the vault file, None while it does not exist
    vault_cache       \* FileVault._cache of each FileVault instance on that file

injVars == <<default_ttl, default_max_uses, credentials, next_id, environ,
             injected_env_keys, thread_local, ctx>>
regVars == <<records, reg_next_id, leaks, access_history, leak_pc>>
mtVars == <<thr>>
logVars == <<log_cfg, log_buffer, log_store, log_n, io_errors>>
memVars == <<heap, guard_scope, guard_protected>>
vaultVars == <<vault_file, vault_cache>>
extVars == <<memVars, vaultVars>>
auxVars == <<mtVars, logVars, extVars>>
vars == <<now, ret, audit, injVars, regVars, auxVars>>

----------------------------------------------------------------------------
(* Bounds of the model *)
MaxTime  == 2      \* the clock runs 0..MaxTime
MaxCreds == 1      \* create_credential calls per run
MaxRegs  == 1      \* register_credential calls per run
MaxLeaks == 1      \* no report or scan starts once this many leaks are recorded
MaxHistory == 1    \* no verify_credential is recorded beyond this many per credential

----------------------------------------------------------------------------
(* Generic helpers *)
None == <<>>
Some(x) == <<x>>

\* Python's `a or b` on Optional[int]: None and 0 are falsy
OrElse(a, b) == IF a = None \/ a = Some(0) THEN b ELSE a[1]

EmptyMap == [k \in {} |-> 0]
MapPut(f, k, v) == [x \in DOMAIN f \cup {k} |-> IF x = k THEN v ELSE f[x]]
MapDel(f, k) == [x \in DOMAIN f \ {k} |-> f[x]]

\* an insertion-ordered dict is a sequence of <<key, value>> pairs with distinct keys
DictKeys(d) == [i \in 1..Len(d) |-> d[i][1]]
DictHas(d, k) == \E i \in 1..Len(d) : d[i][1] = k
DictGet(d, k) == d[CHOOSE i \in 1..Len(d) : d[i][1] = k][2]
DictValues(d) == {d[i][2] : i \in 1..Len(d)}
DictSet(d, k, v) ==
    IF DictHas(d, k)
    THEN [i \in 1..Len(d) |-> IF d[i][1] = k THEN <<k, v>> ELSE d[i]]
    ELSE Append(d, <<k, v>>)
DictDel(d, k) == SelectSeq(d, LAMBDA p : p[1] # k)

\* str.upper() on the characters the model uses
UpperChar(c) ==
    CASE c = "a" -> "A"
      [] c = "b" -> "B"
      [] c = "t" -> "T"
      [] OTHER   -> c
Upper(s) == [i \in 1..Len(s) |-> UpperChar(s[i])]

\* str.lower() on the characters the model uses
LowerChar(c) ==
    CASE c = "D" -> "d"
      [] c = "B" -> "b"
      [] c = "K" -> "k"
      [] c = "E" -> "e"
      [] c = "Y" -> "y"
      [] c = "H" -> "h"
      [] c = "O" -> "o"
      [] c = "M" -> "m"
      [] c = "P" -> "p"
      [] OTHER   -> c
Lower(s) == [i \in 1..Len(s) |-> LowerChar(s[i])]

\* Python's `sub in s` on strings
Contains(sub, s) ==
    \E i \in 0..(Len(s) - Len(sub)) : SubSeq(s, i + 1, i + Len(sub)) = sub

----------------------------------------------------------------------------
(* Input domains *)
Threads == {"t1", "t2"}
CredValues == {"v1", "v2"}
CredNames == {<<"a">>, <<"b">>}
PrefixArg == <<"t", "_">>                        \* constructor argument `prefix`
KeyE == <<"E">>
IllegalKeyArg == <<"=">>                         \* os.environ rejects a key holding "="
EnvKeyArgs == {None, KeyE, IllegalKeyArg}        \* None: use the default key
CredIds == 1..MaxCreds

\* constructor arguments (default_ttl_seconds, default_max_uses)
InjectorConfigs == {<<1, 1>>, <<0, 1>>}

\* create_credential arguments: <<name, value, ttl_seconds, max_uses, scope>>
CreateArgs ==
    { <<<<"a">>, "v1", None, Some(2), "process">>,
      <<<<"b">>, "v2", Some(-1), None, "process">>,
      <<<<"b">>, "v2", Some(0), Some(0), "thread">>,
      <<<<"a">>, "v2", Some(1), None, "request">> }

\* inject_context arguments: <<name, value, ttl_seconds, env_key>>
ContextArgs ==
    { <<<<"a">>, "v2", t, k>> : t \in {None, Some(-1)}, k \in {None, KeyE} }

RegIds == 1..MaxRegs
SecretValues == {"p1", "p2"}
NameDb == <<"d", "b">>
NameApi == <<"a", "p", "i">>

\* register_credential arguments: <<name, value, expires_in, rotation_interval_days>>
RegisterArgs ==
    { <<NameDb, "p1", Some(1), Some(1)>>,
      <<NameApi, "p2", Some(0), Some(0)>> }

\* the process environment the manager scans, in os.environ's order
KeyDbKey == <<"D", "B", "_", "K", "E", "Y">>
KeyHome == <<"H", "O", "M", "E">>
ScanEnviron == <<KeyDbKey, KeyHome>>

\* log files: None, a file that cannot be read, and a file whose lines are
\* `<name> = <token>`, given as <<name, length of the token>>
LogFileArgs == {"none", "missing.log", "app.log"}
LogLines(file) ==
    IF file = "app.log"
    THEN << <<<<"D", "B">>, 24>>, <<NameApi, 8>> >>
    ELSE <<>>

----------------------------------------------------------------------------
(* TemporaryCredential *)
IsExpired(c) == IF c.expires_at = None THEN FALSE ELSE now > c.expires_at[1]
\* a depletion test that is off by one
IsDepleted_off(c) == c.use_count > c.max_uses
IsDepleted(c) == c.use_count >= c.max_uses
IsValid(c) == ~IsExpired(c) /\ ~IsDepleted(c)
\* a mark_used that forgets to count
MarkUsed_noop(c) == c
MarkUsed(c) == [c EXCEPT !.use_count = c.use_count + 1]

----------------------------------------------------------------------------
(* The events of AuditLogger's convenience loggers, as handed to log() *)
Event(type, resource, action, res, details) ==
    [event_type |-> type, resource |-> resource, action |-> action,
     result |-> res, details |-> details]

LogCredentialCreated(c) ==
    Event("credential_created", Some(c.name), Some("create"), "success",
          [id |-> c.id, scope |-> c.scope,
           ttl_seconds |-> IF c.expires_at = None THEN None
                           ELSE Some(c.expires_at[1] - now),
           max_uses |-> c.max_uses])
LogCredentialUsed(c, env_key) ==
    Event("credential_used", Some(c.name), Some("use"), "success",
          [env_key |-> env_key, use_count |-> c.use_count,
           remaining |-> c.max_uses - c.use_count])
LogCredentialRevoked(c) ==
    Event("credential_revoked", Some(c.name), Some("revoke"), "success", [id |-> c.id])
LogCredentialCleaned(c, env_key) ==
    Event("credential_cleaned", Some(c.name), Some("cleanup"), "success",
          [env_key |-> env_key])

\* `if self._audit: self._audit.log(...)`: both components are constructed with
\* an AuditLogger, so every guarded call is made
Emit(trail, e) == Append(trail, e)

----------------------------------------------------------------------------
(* SandboxInjector: the methods as functions of the injector's state        *)
(* s = [credentials, environ, injected_env_keys, thread_local, audit],      *)
(* s.audit being the events the call has logged so far                      *)

\* _generate_id: a fresh 16-hex-digit string; the n-th id is modelled as n,
\* and its string form (compared with environment keys in cleanup) as "#" n times "i"
IdStr(id) == [i \in 1..(id + 1) |-> IF i = 1 THEN "#" ELSE "i"]

\* os.environ.__setitem__ raises ValueError on a key holding "="
IllegalKey(key) == \E i \in 1..Len(key) : key[i] = "="

\* f"{self.prefix}{credential.name.upper()}", self.prefix = prefix.upper()
DefaultKey(name) == Upper(PrefixArg) \o Upper(name)
ResolveKey(c, env_key) == IF env_key = None THEN DefaultKey(c.name) ELSE env_key

\* the injector's state as a call finds it; the call has logged nothing yet
InjState ==
    [credentials |-> credentials, environ |-> environ,
     injected_env_keys |-> injected_env_keys, thread_local |-> thread_local,
     audit |-> <<>>]

\* a create_credential that takes a ttl only when it is positive
NewCredential_positive(id, args) ==
    LET ttl_given == args[3] # None /\ args[3][1] > 0
        has_ttl == ttl_given \/ default_ttl # 0
        ttl == IF ttl_given THEN args[3][1] ELSE default_ttl
    IN [id |-> id, name |-> args[1], value |-> args[2],
        expires_at |-> IF has_ttl THEN Some(now + ttl) ELSE None,
        max_uses |-> OrElse(args[4], default_max_uses), use_count |-> 0,
        scope |-> args[5]]

\* create_credential: the record it builds (created_at, which only the audit
\* event's ttl_seconds reads, is the clock at the call and is not stored)
NewCredential(id, args) ==
    LET ttl_given == args[3] # None /\ args[3] # Some(0)
        has_ttl == ttl_given \/ default_ttl # 0
        ttl == OrElse(args[3], default_ttl)
    IN [id |-> id, name |-> args[1], value |-> args[2],
        expires_at |-> IF has_ttl THEN Some(now + ttl) ELSE None,
        max_uses |-> OrElse(args[4], default_max_uses), use_count |-> 0,
        scope |-> args[5]]

CreateCredentialSt(s, id, args) ==
    LET c == NewCredential(id, args)
    IN [s EXCEPT !.credentials = MapPut(s.credentials, id, c),
                 !.audit = Emit(s.audit, LogCredentialCreated(c))]

FailResult(id, err) ==
    [success |-> FALSE, credential_id |-> id, injected_value |-> None,
     environment_key |-> None, error |-> Some(err)]
OkResult(id, value, key) ==
    [success |-> TRUE, credential_id |-> id, injected_value |-> Some(value),
     environment_key |-> key, error |-> None]

\* inject: the InjectionResult
InjectResult(s, id, env_key) ==
    IF id \notin DOMAIN s.credentials
    THEN FailResult(id, "Credential not found")
    ELSE LET c == s.credentials[id] IN
         IF ~IsValid(c)
         THEN FailResult(id, IF IsExpired(c) THEN "Credential expired"
                             ELSE "Credential depleted")
         ELSE IF c.scope = "process" /\ IllegalKey(ResolveKey(c, env_key))
         THEN FailResult(id, "illegal environment variable name")
         ELSE OkResult(id, c.value, ResolveKey(c, env_key))

\* an inject that writes os.environ and the tracking map whatever the scope
InjectSt_anyscope(s, id, env_key, thread_id) ==
    IF ~InjectResult(s, id, env_key).success
    THEN s
    ELSE LET c == s.credentials[id]
             key == ResolveKey(c, env_key)
             used == MarkUsed(c)
         IN [s EXCEPT !.environ = MapPut(s.environ, key, c.value),
                      !.injected_env_keys = DictSet(s.injected_env_keys, key, id),
                      !.credentials = MapPut(s.credentials, id, used),
                      !.audit = Emit(s.audit, LogCredentialUsed(used, key))]

\* inject: the state it leaves
InjectSt(s, id, env_key, thread_id) ==
    IF ~InjectResult(s, id, env_key).success
    THEN s
    ELSE LET c == s.credentials[id]
             key == ResolveKey(c, env_key)
             used == MarkUsed(c)
             s1 == CASE c.scope = "process" ->
                         [s EXCEPT !.environ = MapPut(s.environ, key, c.value),
                                   !.injected_env_keys =
                                       DictSet(s.injected_env_keys, key, id)]
                     [] c.scope = "thread" ->
                         [s EXCEPT !.thread_local =
                             MapPut(s.thread_local, thread_id,
                                    MapPut(IF thread_id \in DOMAIN s.thread_local
                                           THEN s.thread_local[thread_id]
                                           ELSE EmptyMap,
                                           key, c.value))]
                     [] OTHER -> s
         IN [s1 EXCEPT !.credentials = MapPut(s.credentials, id, used),
                       !.audit = Emit(s.audit, LogCredentialUsed(used, key))]

\* a cleanup that forgets os.environ
CleanupSt_noenv(s, env_key) ==
    IF DictHas(s.injected_env_keys, env_key)
    THEN [s EXCEPT !.injected_env_keys = DictDel(s.injected_env_keys, env_key)]
    ELSE s

\* cleanup(env_key)
CleanupSt(s, env_key) ==
    LET env1 == IF env_key \in DOMAIN s.environ THEN MapDel(s.environ, env_key)
                ELSE s.environ
    IN IF DictHas(s.injected_env_keys, env_key)
       THEN LET cred_id == DictGet(s.injected_env_keys, env_key)
                keys1 == DictDel(s.injected_env_keys, env_key)
                other == \E v \in DictValues(keys1) : IdStr(v) = env_key
            IN [s EXCEPT !.environ = env1,
                         !.injected_env_keys = keys1,
                         !.audit = IF ~other /\ cred_id \in DOMAIN s.credentials
                                   THEN Emit(s.audit,
                                             LogCredentialCleaned(s.credentials[cred_id],
                                                                  env_key))
                                   ELSE s.audit]
       ELSE [s EXCEPT !.environ = env1]

\* `for key in keys: self.cleanup(key)`
RECURSIVE CleanupEach(_, _)
CleanupEach(s, keys) ==
    IF keys = <<>> THEN s ELSE CleanupEach(CleanupSt(s, Head(keys)), Tail(keys))

\* cleanup_all
CleanupAllSt(s) == CleanupEach(s, DictKeys(s.injected_env_keys))

\* a revoke that deletes the record and leaves its injected keys alone
RevokeSt_keepkeys(s, id) ==
    IF id \in DOMAIN s.credentials
    THEN [s EXCEPT !.credentials = MapDel(s.credentials, id),
                   !.audit = Emit(s.audit, LogCredentialRevoked(s.credentials[id]))]
    ELSE s

\* revoke(credential_id)
RevokeSt(s, id) ==
    IF id \in DOMAIN s.credentials
    THEN LET c == s.credentials[id]
             keys_to_clean == DictKeys(SelectSeq(s.injected_env_keys,
                                                 LAMBDA p : p[2] = id))
             s1 == CleanupEach(s, keys_to_clean)
         IN [s1 EXCEPT !.credentials = MapDel(s1.credentials, id),
                       !.audit = Emit(s1.audit, LogCredentialRevoked(c))]
    ELSE s

\* the largest id in the store, 0 for an empty store
LastId(creds) ==
    IF DOMAIN creds = {} THEN 0
    ELSE CHOOSE m \in DOMAIN creds : \A id \in DOMAIN creds : id <= m

\* a sweep that looks at expiry only
ExpiredIds_expired(s) ==
    SelectSeq([i \in 1..LastId(s.credentials) |-> i],
              LAMBDA id : id \in DOMAIN s.credentials
                          /\ IsExpired(s.credentials[id]))

\* cleanup_expired: the ids it revokes, in the store's (insertion) order
ExpiredIds(s) ==
    SelectSeq([i \in 1..LastId(s.credentials) |-> i],
              LAMBDA id : id \in DOMAIN s.credentials
                          /\ (IsExpired(s.credentials[id])
                              \/ IsDepleted(s.credentials[id])))

RECURSIVE RevokeEach(_, _)
RevokeEach(s, ids) ==
    IF ids = <<>> THEN s ELSE RevokeEach(RevokeSt(s, Head(ids)), Tail(ids))

CleanupExpiredSt(s) == RevokeEach(s, ExpiredIds(s))

----------------------------------------------------------------------------
(* Initial state: both components freshly constructed *)
Ret(op, val) == [op |-> op, val |-> val]
IdleCtx == [pc |-> "idle", cred_id |-> 0, key |-> None, value |-> ""]
IdleThread ==
    [pc |-> "idle", op |-> "none", id |-> 0, key |-> None, cred |-> None,
     todo |-> <<>>, tmp |-> 0, res |-> Ret("none", FALSE), log |-> <<>>]
IdleLeak == [pc |-> "idle", op |-> "none", leak |-> None, todo |-> <<>>, found |-> <<>>]

\* os.environ as the process finds it: empty, or KeyE already set by someone else
InitialEnvirons == {EmptyMap, [k \in {KeyE} |-> "w0"]}

InitShared ==
    /\ now = 0
    /\ ret = Ret("none", FALSE)
    /\ audit = <<>>
    /\ credentials = EmptyMap
    /\ next_id = 0
    /\ injected_env_keys = <<>>
    /\ thread_local = EmptyMap
    /\ ctx = IdleCtx
    /\ records = EmptyMap
    /\ reg_next_id = 0
    /\ leaks = <<>>
    /\ access_history = EmptyMap
    /\ leak_pc = IdleLeak
    /\ thr = [t \in Threads |-> IdleThread]
    /\ log_buffer = <<>>
    /\ log_store = <<>>
    /\ log_n = 0
    /\ io_errors = 0
    /\ heap = <<>>
    /\ guard_scope = "out"
    /\ guard_protected = <<>>
    /\ vault_file = None
    /\ vault_cache = <<None, None>>

\* AuditLogger(): no log file, no signing key, filtering on, buffer of 100
DefaultBufferSize == 100
DefaultLogCfg ==
    [log_file |-> FALSE, signing_key |-> None, filter_sensitive |-> TRUE,
     buffer_size |-> DefaultBufferSize, auto_flush |-> TRUE]

InitCommon ==
    /\ InitShared
    /\ log_cfg = DefaultLogCfg

InitInj ==
    /\ InitCommon
    /\ \E cfg \in InjectorConfigs : default_ttl = cfg[1] /\ default_max_uses = cfg[2]
    /\ environ \in InitialEnvirons

----------------------------------------------------------------------------
(* SandboxInjector: the actions *)
SetInj(s) ==
    /\ credentials' = s.credentials
    /\ environ' = s.environ
    /\ injected_env_keys' = s.injected_env_keys
    /\ thread_local' = s.thread_local
    /\ audit' = s.audit

InBody == ctx.pc = "body"

Tick ==
    /\ now < MaxTime
    /\ now' = now + 1
    /\ UNCHANGED <<ret, audit, injVars, regVars, auxVars>>

CreateCredential(args) ==
    /\ next_id < MaxCreds
    /\ next_id' = next_id + 1
    /\ \E s \in {CreateCredentialSt(InjState, next_id + 1, args)} : SetInj(s)
    /\ ret' = Ret("create_credential", next_id + 1)
    /\ UNCHANGED <<now, default_ttl, default_max_uses, ctx, regVars, auxVars>>

\* inside an inject_context body the caller leaves the scope's own key alone
Inject(id, env_key, thread_id) ==
    /\ ret' = Ret("inject", InjectResult(InjState, id, env_key))
    /\ InBody => ret'.val.environment_key # ctx.key
    /\ \E s \in {InjectSt(InjState, id, env_key, thread_id)} : SetInj(s)
    /\ UNCHANGED <<now, default_ttl, default_max_uses, next_id, ctx, regVars, auxVars>>

Cleanup(env_key) ==
    /\ InBody => env_key # ctx.key
    /\ \E s \in {CleanupSt(InjState, env_key)} : SetInj(s)
    /\ ret' = Ret("cleanup", TRUE)
    /\ UNCHANGED <<now, default_ttl, default_max_uses, next_id, ctx, regVars, auxVars>>

\* cleanup_all returns the number of keys it swept (cleanup always returns True)
CleanupAll ==
    /\ ~InBody
    /\ \E s \in {CleanupAllSt(InjState)} : SetInj(s)
    /\ ret' = Ret("cleanup_all", Len(injected_env_keys))
    /\ UNCHANGED <<now, default_ttl, default_max_uses, next_id, ctx, regVars, auxVars>>

Revoke(id) ==
    /\ InBody => id # ctx.cred_id
    /\ \E s \in {RevokeSt(InjState, id)} : SetInj(s)
    /\ ret' = Ret("revoke", id \in DOMAIN credentials)
    /\ UNCHANGED <<now, default_ttl, default_max_uses, next_id, ctx, regVars, auxVars>>

CleanupExpired ==
    /\ ~InBody
    /\ \E s \in {CleanupExpiredSt(InjState)} : SetInj(s)
    /\ ret' = Ret("cleanup_expired", Len(ExpiredIds(InjState)))
    /\ UNCHANGED <<now, default_ttl, default_max_uses, next_id, ctx, regVars, auxVars>>

\* inject_context up to its `yield`: create_credential, inject, raise on failure
InjectContextEnter(name, value, ttl_seconds, env_key) ==
    /\ ~InBody /\ next_id < MaxCreds
    /\ LET id == next_id + 1
           s1 == CreateCredentialSt(InjState, id, <<name, value, ttl_seconds, None,
                                                    "process">>)
           r == InjectResult(s1, id, env_key)
       IN /\ next_id' = id
          /\ \E s \in {InjectSt(s1, id, env_key, "t1")} : SetInj(s)
          /\ ctx' = IF r.success
                    THEN [pc |-> "body", cred_id |-> id, key |-> r.environment_key,
                          value |-> value]
                    ELSE IdleCtx
          /\ ret' = IF r.success THEN Ret("inject_context", "yield")
                    ELSE Ret("inject_context", "RuntimeError")
    /\ UNCHANGED <<now, default_ttl, default_max_uses, regVars, auxVars>>

\* inject_context after its `yield`: the body returned or raised; `finally: cleanup`
InjectContextExit(raised) ==
    /\ InBody
    /\ \E s \in {CleanupSt(InjState, ctx.key)} : SetInj(s)
    /\ ctx' = IdleCtx
    /\ ret' = Ret("inject_context", IF raised THEN "raised" ELSE "returned")
    /\ UNCHANGED <<now, default_ttl, default_max_uses, next_id, regVars, auxVars>>

InjKeys == {KeyE} \cup {DefaultKey(n) : n \in CredNames}

NextInj ==
    \/ Tick
    \/ \E args \in CreateArgs : CreateCredential(args)
    \/ \E id \in CredIds, k \in EnvKeyArgs, t \in Threads : Inject(id, k, t)
    \/ \E k \in InjKeys : Cleanup(k)
    \/ CleanupAll
    \/ \E id \in CredIds : Revoke(id)
    \/ CleanupExpired
    \/ \E a \in ContextArgs : InjectContextEnter(a[1], a[2], a[3], a[4])
    \/ \E raised \in BOOLEAN : InjectContextExit(raised)

SpecInj == InitInj /\ [][NextInj]_vars

----------------------------------------------------------------------------
(* Claims about SandboxInjector, checked under SpecInj *)

\* what the fields of a stored credential say, read without the properties
RawExpired(c) == c.expires_at # None /\ now > c.expires_at[1]
RawDepleted(c) == c.use_count >= c.max_uses

\* the step is a call inject(id, ...): no other step leaves an InjectionResult
\* in ret, and the clock does not move during a call
InjectStep(id) ==
    now' = now /\ ctx' = ctx /\ ret'.op = "inject" /\ ret'.val.credential_id = id

\* C1: inject on an unknown, expired or depleted credential returns success=false
\* with an error naming the cause (expired before depleted) and leaves the
\* environment, the tracking map, the thread-local maps and the credential
\* store, use_count included, as they were.
C1_FailedInjectChangesNothing ==
    [][\A id \in CredIds :
         (/\ InjectStep(id)
          /\ \/ id \notin DOMAIN credentials
             \/ RawExpired(credentials[id])
             \/ RawDepleted(credentials[id]))
         => /\ ret'.val.success = FALSE
            /\ ret'.val.error =
                 Some(IF id \notin DOMAIN credentials THEN "Credential not found"
                      ELSE IF RawExpired(credentials[id]) THEN "Credential expired"
                      ELSE "Credential depleted")
            /\ UNCHANGED <<environ, injected_env_keys, thread_local, credentials>>
            /\ audit' = <<>>
      ]_vars

\* an inject refused as expired although the credential is depleted as well
C1_Witness ==
    /\ ret.op = "inject"
    /\ ret.val.success = FALSE
    /\ ret.val.error = Some("Credential expired")
    /\ ret.val.credential_id \in DOMAIN credentials
    /\ RawDepleted(credentials[ret.val.credential_id])
    /\ credentials[ret.val.credential_id].use_count > 0

\* C2: while the body of inject_context(name, value, env_key=E) runs, E holds
\* value in the environment; when the scope exits, by return or by raise, E is
\* absent from the environment and from the tracking map.
C2_ScopedInjectionCleansUp ==
    [][/\ InBody' => /\ ctx'.key \in DOMAIN environ'
                     /\ environ'[ctx'.key] = ctx'.value
       /\ (InBody /\ ~InBody') => /\ ctx.key \notin DOMAIN environ'
                                  /\ ~DictHas(injected_env_keys', ctx.key)
                                  /\ ret'.val \in {"returned", "raised"}
      ]_vars

\* a scope on E left by an exception, E being gone
C2_Witness ==
    /\ ret = Ret("inject_context", "raised")
    /\ KeyE \notin DOMAIN environ
    /\ ~DictHas(injected_env_keys, KeyE)
    /\ \E id \in DOMAIN credentials : credentials[id].use_count = 1

C4_IsValid ==
    [][/\ \A id \in DOMAIN credentials' :
            IsValid(credentials[id])' <=>
                /\ \/ credentials'[id].expires_at = None
                   \/ now' <= credentials'[id].expires_at[1]
                /\ credentials'[id].use_count < credentials'[id].max_uses
       /\ \A args \in CreateArgs :
            (/\ args[3] # None /\ args[3][1] < 0
             /\ ret'.op = "create_credential" /\ next_id' = next_id + 1
             /\ CreateCredential(args))
            => /\ IsExpired(credentials[next_id])'
               /\ ~IsValid(credentials[next_id])'
      ]_vars

\* a credential just created with a negative TTL
C4_Witness ==
    /\ ret.op = "create_credential"
    /\ ret.val \in DOMAIN credentials
    /\ credentials[ret.val].expires_at # None
    /\ credentials[ret.val].expires_at[1] < now
    /\ credentials[ret.val].use_count = 0

----------------------------------------------------------------------------
(* SecurityCredentialManager (security/credential.py) *)

HistoryMaxLen == 1000        \* deque(maxlen=1000)
MinTokenLen == 20            \* {20,} in the log pattern

\* _hash_value: SHA-256, taken to be collision-free on the model's values
HashValue(value) == <<"sha256", value>>

\* CredentialRecord.is_expired
RecIsExpired(r) == IF r.expires_at = None THEN FALSE ELSE now > r.expires_at[1]

\* a needs_rotation that is already true at the instant the interval ends
NeedsRotation_atdue(r) ==
    IF r.rotation_interval = None \/ r.last_rotated = None THEN FALSE
    ELSE now >= r.last_rotated[1] + r.rotation_interval[1]

\* CredentialRecord.needs_rotation
NeedsRotation(r) ==
    IF r.rotation_interval = None \/ r.last_rotated = None THEN FALSE
    ELSE now > r.last_rotated[1] + r.rotation_interval[1]

\* register_credential: the record it stores (`if expires_in:` and
\* `if rotation_interval_days:` treat 0 as not given)
NewRecord(id, args) ==
    [id |-> id, name |-> args[1], value_hash |-> HashValue(args[2]),
     status |-> "active",
     expires_at |-> IF args[3] = None \/ args[3] = Some(0) THEN None
                    ELSE Some(now + args[3][1]),
     last_rotated |-> Some(now),
     rotation_interval |-> IF args[4] = None \/ args[4] = Some(0) THEN None
                           ELSE args[4]]

\* the manager's state as a call finds it; the call has logged nothing yet
RegState ==
    [records |-> records, leaks |-> leaks, access_history |-> access_history,
     audit |-> <<>>]

SetStatus(s, id, status) ==
    [s EXCEPT !.records = [s.records EXCEPT ![id].status = status]]

RegisterSt(s, id, args) ==
    [s EXCEPT !.records = MapPut(s.records, id, NewRecord(id, args)),
              !.access_history = MapPut(s.access_history, id, <<>>),
              !.audit = Emit(s.audit,
                             Event("credential_created", Some(args[1]), None, "success",
                                   [id |-> id]))]

\* a verify_credential that does not look at the status
VerifyValid_anystatus(s, id, value) ==
    /\ id \in DOMAIN s.records
    /\ ~RecIsExpired(s.records[id])
    /\ HashValue(value) = s.records[id].value_hash

\* verify_credential: the value it returns
VerifyValid(s, id, value) ==
    /\ id \in DOMAIN s.records
    /\ s.records[id].status = "active"
    /\ ~RecIsExpired(s.records[id])
    /\ HashValue(value) = s.records[id].value_hash

\* _record_access: append to the credential's deque, dropping the oldest entry
\* beyond maxlen
RecordAccess(s, id, success) ==
    IF id \notin DOMAIN s.access_history THEN s
    ELSE LET h == Append(s.access_history[id], success)
         IN [s EXCEPT !.access_history[id] =
                 IF Len(h) > HistoryMaxLen THEN Tail(h) ELSE h]

\* verify_credential: whether the call gets as far as comparing the hashes
VerifyCompares(s, id) ==
    /\ id \in DOMAIN s.records
    /\ s.records[id].status = "active"
    /\ ~RecIsExpired(s.records[id])

\* verify_credential: the state it leaves
VerifySt(s, id, value) ==
    IF id \notin DOMAIN s.records THEN s
    ELSE IF s.records[id].status # "active" THEN s
    ELSE IF RecIsExpired(s.records[id]) THEN SetStatus(s, id, "expired")
    ELSE RecordAccess(s, id, VerifyValid(s, id, value))

\* a revoke_credential that returns early on a record already revoked
RevokeCredentialSt_quiet(s, id, reason) ==
    IF id \notin DOMAIN s.records \/ s.records[id].status = "revoked" THEN s
    ELSE [SetStatus(s, id, "revoked") EXCEPT
             !.audit = Emit(s.audit,
                            Event("credential_revoked", Some(s.records[id].name), None,
                                  "success", [id |-> id, reason |-> reason]))]

\* revoke_credential(cred_id, reason)
RevokeCredentialSt(s, id, reason) ==
    IF id \notin DOMAIN s.records THEN s
    ELSE [SetStatus(s, id, "revoked") EXCEPT
             !.audit = Emit(s.audit,
                            Event("credential_revoked", Some(s.records[id].name), None,
                                  "success", [id |-> id, reason |-> reason]))]

\* a rotate_credential that reactivates whatever is not active
Reactivates_any(status) == status # "active"

\* rotate_credential: the statuses it turns back to ACTIVE
Reactivates(status) == status \in {"expired", "revoked"}

\* a rotate_credential that also lifts the record's expiry
RotateSt_renew(s, id, new_value) ==
    IF id \notin DOMAIN s.records THEN s
    ELSE LET r == s.records[id]
             r1 == [r EXCEPT !.value_hash = HashValue(new_value),
                             !.last_rotated = Some(now),
                             !.expires_at = None,
                             !.status = IF Reactivates(r.status) THEN "active"
                                        ELSE r.status]
         IN [s EXCEPT !.records = [s.records EXCEPT ![id] = r1],
                      !.audit = Emit(s.audit,
                                     Event("credential_created", Some(r.name),
                                           Some("rotate"), "success", [id |-> id]))]

\* rotate_credential(cred_id, new_value)
RotateSt(s, id, new_value) ==
    IF id \notin DOMAIN s.records THEN s
    ELSE LET r == s.records[id]
             r1 == [r EXCEPT !.value_hash = HashValue(new_value),
                             !.last_rotated = Some(now),
                             !.status = IF Reactivates(r.status) THEN "active"
                                        ELSE r.status]
         IN [s EXCEPT !.records = [s.records EXCEPT ![id] = r1],
                      !.audit = Emit(s.audit,
                                     Event("credential_created", Some(r.name),
                                           Some("rotate"), "success", [id |-> id]))]

\* check_rotation_needed: the ids it returns, in the store's order
RotationNeeded(s) ==
    SelectSeq([i \in 1..LastId(s.records) |-> i],
              LAMBDA id : /\ id \in DOMAIN s.records
                          /\ s.records[id].status = "active"
                          /\ NeedsRotation(s.records[id]))

CheckRotationSt(s) ==
    [s EXCEPT !.records =
        [id \in DOMAIN s.records |->
            IF s.records[id].status = "active" /\ NeedsRotation(s.records[id])
            THEN [s.records[id] EXCEPT !.status = "pending_rotation"]
            ELSE s.records[id]]]

\* cleanup_expired: the records it deletes
RegExpiredIds(s) == {id \in DOMAIN s.records : RecIsExpired(s.records[id])}
RegCleanupExpiredSt(s) ==
    [s EXCEPT !.records = [id \in DOMAIN s.records \ RegExpiredIds(s) |-> s.records[id]]]

\* AuditLogger.log_security_violation, as report_leak calls it
LogSecurityViolation(id, leak_source, severity) ==
    Event("security_violation", None, Some("violation"), "denied",
          [type |-> "credential_leak", credential_id |-> id,
           leak_source |-> leak_source, severity |-> severity])

CredentialLeak(id, leak_source, evidence, severity) ==
    [credential_id |-> id, detected_at |-> now, leak_source |-> leak_source,
     evidence |-> evidence, severity |-> severity]

\* report_leak up to `record.status = CredentialStatus.COMPROMISED`
ReportLeakMarkSt(s, leak) ==
    [SetStatus(s, leak.credential_id, "compromised") EXCEPT
        !.leaks = Append(s.leaks, leak)]

\* a report_leak that forgets the automatic revocation
ReportLeakFinishSt_norevoke(s, leak) ==
    [s EXCEPT !.audit = Emit(s.audit,
                             LogSecurityViolation(leak.credential_id, leak.leak_source,
                                                  leak.severity))]

\* report_leak from the automatic revocation on: revoke_credential, the leak
\* callbacks (none registered), log_security_violation
ReportLeakFinishSt(s, leak) ==
    LET s1 == RevokeCredentialSt(s, leak.credential_id,
                                 <<"leak detected: ", leak.leak_source>>)
    IN [s1 EXCEPT !.audit = Emit(s1.audit,
                                 LogSecurityViolation(leak.credential_id,
                                                      leak.leak_source, leak.severity))]

\* scan_for_leaks, the environment: every (key, record) pair whose key holds a
\* sensitive word and the record's name
SensitiveWords ==
    { <<"k", "e", "y">>, <<"s", "e", "c", "r", "e", "t">>, <<"t", "o", "k", "e", "n">>,
      <<"p", "a", "s", "s", "w", "o", "r", "d">> }
EnvFlags(key, r) ==
    /\ \E w \in SensitiveWords : Contains(w, Lower(key))
    /\ Contains(Lower(r.name), Lower(key))

RECURSIVE EnvLeaksOfKey(_, _, _)
EnvLeaksOfKey(s, key, id) ==
    IF id > MaxRegs THEN <<>>
    ELSE (IF id \in DOMAIN s.records /\ EnvFlags(key, s.records[id])
          THEN <<CredentialLeak(id, "environment", <<"env", key>>, "high")>>
          ELSE <<>>)
         \o EnvLeaksOfKey(s, key, id + 1)

RECURSIVE EnvLeaks(_, _)
EnvLeaks(s, keys) ==
    IF keys = <<>> THEN <<>>
    ELSE EnvLeaksOfKey(s, Head(keys), 1) \o EnvLeaks(s, Tail(keys))

\* scan_for_leaks, the log file: a record is flagged when some line assigns a
\* token of 20 characters or more to its name (re.IGNORECASE)
LogFlags(file, r) ==
    \E i \in 1..Len(LogLines(file)) :
        /\ Lower(LogLines(file)[i][1]) = Lower(r.name)
        /\ LogLines(file)[i][2] >= MinTokenLen

RECURSIVE LogLeaks(_, _, _)
LogLeaks(s, file, id) ==
    IF id > MaxRegs THEN <<>>
    ELSE (IF id \in DOMAIN s.records /\ LogFlags(file, s.records[id])
          THEN <<CredentialLeak(id, "log", <<"log", file>>, "high")>>
          ELSE <<>>)
         \o LogLeaks(s, file, id + 1)

\* a scan that gives up when the log file cannot be read
ScanLeaks_abort(s, log_file, environment) ==
    IF log_file = "missing.log" THEN <<>>
    ELSE (IF environment
          THEN EnvLeaks(s, SelectSeq(ScanEnviron, LAMBDA k : k \in DOMAIN environ))
          ELSE <<>>)
         \o (IF log_file = "none" THEN <<>> ELSE LogLeaks(s, log_file, 1))

\* scan_for_leaks: the leaks it finds, in the order it reports them; a log
\* file that cannot be read is logged and skipped
ScanLeaks(s, log_file, environment) ==
    (IF environment
     THEN EnvLeaks(s, SelectSeq(ScanEnviron, LAMBDA k : k \in DOMAIN environ))
     ELSE <<>>)
    \o (IF log_file \in {"none", "missing.log"} THEN <<>> ELSE LogLeaks(s, log_file, 1))

----------------------------------------------------------------------------
(* The manager's operations.  report_leak is two steps, because the record is
   COMPROMISED between its marking and its automatic revocation; leak_pc
   holds the position of the call in progress:
     idle      no report_leak or scan_for_leaks is running
     marked    report_leak has appended the leak and marked the record
     scanning  scan_for_leaks is between two of its report_leak calls *)

ReportArgs == { <<"git", "commit", "critical">> }
RevokeReasons == {"manual"}

InitReg ==
    /\ InitCommon
    /\ default_ttl = 300 /\ default_max_uses = 1
    /\ environ = [k \in {KeyDbKey, KeyHome} |-> "x"]

SetReg(s) ==
    /\ records' = s.records
    /\ leaks' = s.leaks
    /\ access_history' = s.access_history
    /\ audit' = s.audit

Idle == leak_pc.pc = "idle"

RegTick ==
    /\ now < MaxTime
    /\ now' = now + 1
    /\ UNCHANGED <<ret, audit, injVars, regVars, auxVars>>

RegisterCredential(args) ==
    /\ Idle
    /\ reg_next_id < MaxRegs
    /\ reg_next_id' = reg_next_id + 1
    /\ ret' = Ret("register_credential", reg_next_id + 1)
    /\ \E s \in {RegisterSt(RegState, reg_next_id + 1, args)} : SetReg(s)
    /\ UNCHANGED <<now, leak_pc, injVars, auxVars>>

VerifyCredential(id, value) ==
    /\ Idle
    /\ VerifyCompares(RegState, id) => Len(access_history[id]) < MaxHistory
    /\ ret' = Ret("verify_credential",
                  [cred_id |-> id, value |-> value, valid |-> VerifyValid(RegState, id, value)])
    /\ \E s \in {VerifySt(RegState, id, value)} : SetReg(s)
    /\ UNCHANGED <<now, reg_next_id, leak_pc, injVars, auxVars>>

RevokeCredential(id, reason) ==
    /\ Idle
    /\ ret' = Ret("revoke_credential", [cred_id |-> id, ok |-> id \in DOMAIN records])
    /\ \E s \in {RevokeCredentialSt(RegState, id, reason)} : SetReg(s)
    /\ UNCHANGED <<now, reg_next_id, leak_pc, injVars, auxVars>>

RotateCredential(id, new_value) ==
    /\ Idle
    /\ ret' = Ret("rotate_credential",
                  [cred_id |-> id, value |-> new_value, ok |-> id \in DOMAIN records])
    /\ \E s \in {RotateSt(RegState, id, new_value)} : SetReg(s)
    /\ UNCHANGED <<now, reg_next_id, leak_pc, injVars, auxVars>>

CheckRotationNeeded ==
    /\ Idle
    /\ ret' = Ret("check_rotation_needed", RotationNeeded(RegState))
    /\ \E s \in {CheckRotationSt(RegState)} : SetReg(s)
    /\ UNCHANGED <<now, reg_next_id, leak_pc, injVars, auxVars>>

ManagerCleanupExpired ==
    /\ Idle
    /\ ret' = Ret("manager.cleanup_expired", Cardinality(RegExpiredIds(RegState)))
    /\ \E s \in {RegCleanupExpiredSt(RegState)} : SetReg(s)
    /\ UNCHANGED <<now, reg_next_id, leak_pc, injVars, auxVars>>

\* report_leak, first half; an unknown id returns at once
ReportLeak(id, leak_source, evidence, severity) ==
    /\ Idle
    /\ Len(leaks) < MaxLeaks
    /\ IF id \notin DOMAIN records
       THEN /\ ret' = Ret("report_leak", [cred_id |-> id, known |-> FALSE])
            /\ audit' = <<>>
            /\ UNCHANGED <<records, leaks, access_history, leak_pc>>
       ELSE LET leak == CredentialLeak(id, leak_source, evidence, severity)
            IN /\ ret' = Ret("report_leak", [cred_id |-> id, known |-> TRUE])
               /\ \E s \in {ReportLeakMarkSt(RegState, leak)} : SetReg(s)
               /\ leak_pc' = [pc |-> "marked", op |-> "report_leak", leak |-> Some(leak),
                              todo |-> <<>>, found |-> <<>>]
    /\ UNCHANGED <<now, reg_next_id, injVars, auxVars>>

\* report_leak, second half; the call returns, or the scan that made it goes on
ReportLeakRevoke ==
    /\ leak_pc.pc = "marked"
    /\ \E s \in {ReportLeakFinishSt([RegState EXCEPT !.audit = audit], leak_pc.leak[1])} :
          SetReg(s)
    /\ IF leak_pc.todo # <<>>
       THEN /\ leak_pc' = [leak_pc EXCEPT !.pc = "scanning", !.leak = None]
            /\ ret' = ret
       ELSE /\ leak_pc' = IdleLeak
            /\ ret' = IF leak_pc.op = "scan_for_leaks"
                      THEN Ret("scan_for_leaks",
                               <<ret.val[1], ret.val[2], "done", leak_pc.found>>)
                      ELSE ret
    /\ UNCHANGED <<now, reg_next_id, injVars, auxVars>>

\* scan_for_leaks up to its reporting loop
ScanForLeaks(log_file, environment) ==
    /\ Idle
    /\ Len(leaks) < MaxLeaks
    /\ LET found == ScanLeaks(RegState, log_file, environment)
       IN /\ audit' = <<>>
          /\ IF found = <<>>
             THEN /\ ret' = Ret("scan_for_leaks", <<log_file, environment, "done", <<>>>>)
                  /\ leak_pc' = leak_pc
             ELSE /\ ret' = Ret("scan_for_leaks", <<log_file, environment, "running", <<>>>>)
                  /\ leak_pc' = [pc |-> "scanning", op |-> "scan_for_leaks", leak |-> None,
                                 todo |-> found, found |-> found]
    /\ UNCHANGED <<now, records, leaks, access_history, reg_next_id, injVars, auxVars>>

\* scan_for_leaks: the next report_leak call of the loop, first half
ScanReportLeak ==
    /\ leak_pc.pc = "scanning"
    /\ LET leak == [Head(leak_pc.todo) EXCEPT !.detected_at = now]
       IN IF leak.credential_id \notin DOMAIN records
          THEN /\ UNCHANGED <<records, leaks, access_history, audit>>
               /\ IF Tail(leak_pc.todo) = <<>>
                  THEN /\ leak_pc' = IdleLeak
                       /\ ret' = Ret("scan_for_leaks",
                                      <<ret.val[1], ret.val[2], "done", leak_pc.found>>)
                  ELSE /\ leak_pc' = [leak_pc EXCEPT !.todo = Tail(leak_pc.todo)]
                       /\ ret' = ret
          ELSE /\ \E s \in {ReportLeakMarkSt([RegState EXCEPT !.audit = audit], leak)} :
                     SetReg(s)
               /\ leak_pc' = [leak_pc EXCEPT !.pc = "marked", !.leak = Some(leak),
                                             !.todo = Tail(leak_pc.todo)]
               /\ ret' = ret
    /\ UNCHANGED <<now, reg_next_id, injVars, auxVars>>

NextReg ==
    \/ RegTick
    \/ \E args \in RegisterArgs : RegisterCredential(args)
    \/ \E id \in RegIds, value \in SecretValues : VerifyCredential(id, value)
    \/ \E id \in RegIds, reason \in RevokeReasons : RevokeCredential(id, reason)
    \/ \E id \in RegIds, value \in SecretValues : RotateCredential(id, value)
    \/ CheckRotationNeeded
    \/ ManagerCleanupExpired
    \/ \E id \in RegIds, a \in ReportArgs : ReportLeak(id, a[1], a[2], a[3])
    \/ ReportLeakRevoke
    \/ \E f \in LogFileArgs, e \in BOOLEAN : ScanForLeaks(f, e)
    \/ ScanReportLeak

SpecReg == InitReg /\ [][NextReg]_vars

----------------------------------------------------------------------------
(* Claims about the manager.  A call is recognised by what it leaves in ret;
   the statuses and the lapse of a TTL are read off the record itself. *)

Lapsed(r) == r.expires_at # None /\ now > r.expires_at[1]
Sha(value) == <<"sha256", value>>
Status(id) == records[id].status
Known(id) == id \in DOMAIN records

VerifyStep(id, value) ==
    /\ ret'.op = "verify_credential"
    /\ ret'.val.cred_id = id
    /\ ret'.val.value = value
    /\ now' = now
    /\ Idle /\ Idle'

RevokeStep(id) ==
    /\ ret'.op = "revoke_credential"
    /\ ret'.val.cred_id = id
    /\ now' = now
    /\ Idle /\ Idle'

RotateStep(id, value) ==
    /\ ret'.op = "rotate_credential"
    /\ ret'.val.cred_id = id
    /\ ret'.val.value = value
    /\ now' = now
    /\ Idle /\ Idle'

\* C5: verify_credential(id, candidate) returns true exactly when id is
\* registered, Active, its TTL has not lapsed and the candidate hashes to the
\* stored hash; an Active record whose TTL has lapsed becomes Expired and the
\* call returns false; in every other case the call changes no record.
C5_VerifyCredential ==
    [][\A id \in RegIds, value \in SecretValues :
         VerifyStep(id, value) =>
           /\ ret'.val.valid =
                (/\ Known(id)
                 /\ Status(id) = "active"
                 /\ ~Lapsed(records[id])
                 /\ records[id].value_hash = Sha(value))
           /\ IF Known(id) /\ Status(id) = "active" /\ Lapsed(records[id])
              THEN records' = [records EXCEPT ![id].status = "expired"]
              ELSE records' = records
           /\ leaks' = leaks
      ]_vars

\* a verify_credential with the right value has just found the TTL lapsed
C5_Witness ==
    /\ ret.op = "verify_credential"
    /\ ret.val.valid = FALSE
    /\ Known(ret.val.cred_id)
    /\ Status(ret.val.cred_id) = "expired"
    /\ records[ret.val.cred_id].value_hash = Sha(ret.val.value)

\* C6: rotate_credential(id, new) on a Revoked or Expired record sets it
\* Active with the hash of new, and from then verify_credential(id, new) is
\* true and verify_credential(id, any other value) is false.
C6_RotateReactivates ==
    [][\A id \in RegIds, value \in SecretValues :
         (RotateStep(id, value) /\ Known(id) /\ Status(id) \in {"revoked", "expired"}) =>
           /\ Status(id)' = "active"
           /\ records'[id].value_hash = Sha(value)
           /\ VerifyValid(RegState, id, value)'
           /\ \A other \in SecretValues \ {value} : ~VerifyValid(RegState, id, other)'
      ]_vars

\* C7: a credential a leak was reported for is never Active again.
C7_LeakedNeverActive ==
    \A id \in DOMAIN records :
        (\E i \in 1..Len(leaks) : leaks[i].credential_id = id) => Status(id) # "active"

SecurityViolations(trail) ==
    Len(SelectSeq(trail, LAMBDA e : e.event_type = "security_violation"))

\* C8: report_leak on a registered credential appends exactly one
\* CredentialLeak and marks the record Compromised, logging nothing yet; before
\* it returns the record is Revoked, the leak list is as the first half left
\* it, and the call has logged exactly one security_violation; on an unknown
\* id it changes no record, records no leak and logs nothing.
C8_ReportLeak ==
    [][/\ (leak_pc.pc # "marked" /\ leak_pc'.pc = "marked") =>
            LET leak == leak_pc'.leak[1]
            IN /\ Known(leak.credential_id)
               /\ leaks' = Append(leaks, leak)
               /\ leak.detected_at = now
               /\ records' = [records EXCEPT ![leak.credential_id].status = "compromised"]
               /\ audit' = IF Idle THEN <<>> ELSE audit
       /\ (leak_pc.pc = "marked" /\ leak_pc'.pc # "marked") =>
            LET id == leak_pc.leak[1].credential_id
            IN /\ Status(id) = "compromised"
               /\ records' = [records EXCEPT ![id].status = "revoked"]
               /\ leaks' = leaks
               /\ SecurityViolations(audit') = SecurityViolations(audit) + 1
       /\ (ret'.op = "report_leak" /\ ~ret'.val.known /\ now' = now /\ Idle) =>
            /\ ~Known(ret'.val.cred_id)
            /\ UNCHANGED <<records, leaks, access_history, leak_pc>>
            /\ audit' = <<>>
      ]_vars

\* a report_leak has returned: one leak, the record Revoked, one violation logged
C8_Witness ==
    /\ ret.op = "report_leak"
    /\ ret.val.known
    /\ Idle
    /\ Len(leaks) = 1
    /\ Status(leaks[1].credential_id) = "revoked"
    /\ SecurityViolations(audit) = 1
    /\ Len(audit) = 2

\* the transitions of the specification's state machine
StatedTransitions ==
    { <<"active", "expired">>, <<"active", "pending_rotation">>,
      <<"expired", "active">>, <<"revoked", "active">>,
      <<"active", "revoked">>, <<"active", "compromised">>,
      <<"compromised", "revoked">> }

\* the transitions the code adds: revoking and reporting a leak do not look at
\* the status they overwrite
FurtherTransitions ==
    { <<"expired", "revoked">>, <<"pending_rotation", "revoked">>,
      <<"expired", "compromised">>, <<"revoked", "compromised">>,
      <<"pending_rotation", "compromised">> }

StatusChangesWithin(allowed) ==
    \A id \in DOMAIN records \cap DOMAIN records' :
        Status(id)' # Status(id) =>
            /\ <<Status(id), Status(id)'>> \in allowed
            /\ Status(id)' = "active" =>
                  (ret'.op = "rotate_credential" /\ ret'.val.cred_id = id)

\* C9 as stated: every status change is one of the seven stated transitions.
C9_StatedTransitionsOnly == [][StatusChangesWithin(StatedTransitions)]_vars

\* C9: every status change is one of the seven stated transitions or one of
\* Expired->Revoked, PendingRotation->Revoked, Expired->Compromised,
\* Revoked->Compromised, PendingRotation->Compromised; only rotate_credential
\* makes a record Active again.
C9_Transitions ==
    [][StatusChangesWithin(StatedTransitions \cup FurtherTransitions)]_vars

\* a scan that flagged one credential twice has reported the first leak, which
\* left the record Revoked, and has just marked it Compromised for the second
C9_Witness ==
    /\ leak_pc.pc = "marked"
    /\ leak_pc.op = "scan_for_leaks"
    /\ Len(leaks) = 2
    /\ leaks[1].credential_id = leaks[2].credential_id
    /\ Status(leaks[2].credential_id) = "compromised"
    /\ Len(audit) = 2

RevokedEvent(id, reason) ==
    Event("credential_revoked", Some(records[id].name), None, "success",
          [id |-> id, reason |-> reason])

\* C10 as stated: revoke_credential sets Revoked and logs credential_revoked,
\* and on a record already Revoked it changes neither the registry nor the
\* audit trail.
C10_RevokeIdempotent ==
    [][\A id \in RegIds :
         (RevokeStep(id) /\ Known(id)) =>
           /\ records' = [records EXCEPT ![id].status = "revoked"]
           /\ IF Status(id) = "revoked"
              THEN audit' = <<>>
              ELSE \E reason \in RevokeReasons : audit' = <<RevokedEvent(id, reason)>>
      ]_vars

\* C10: revoke_credential sets Revoked, changes nothing else of the registry,
\* and logs one credential_revoked on every call, so a second revoke leaves the
\* registry as the first did and adds a second event to the trail.
C10_Revoke ==
    [][\A id \in RegIds :
         (RevokeStep(id) /\ Known(id)) =>
           /\ records' = [records EXCEPT ![id].status = "revoked"]
           /\ Status(id) = "revoked" => records' = records
           /\ \E reason \in RevokeReasons : audit' = <<RevokedEvent(id, reason)>>
           /\ UNCHANGED <<leaks, access_history>>
           /\ ret'.val.ok
      ]_vars

\* a revoke_credential has returned on a record a leak report had already revoked
C10_Witness ==
    /\ ret.op = "revoke_credential"
    /\ ret.val.ok
    /\ Status(ret.val.cred_id) = "revoked"
    /\ \E i \in 1..Len(leaks) : leaks[i].credential_id = ret.val.cred_id
    /\ \E reason \in RevokeReasons : audit = <<RevokedEvent(ret.val.cred_id, reason)>>

----------------------------------------------------------------------------
(* Threads on one SandboxInjector.  The class holds no lock, so the calls of
   different threads interleave between statements.  thr[t] is thread t's
   frame: the method it is in (op), the statement it is at (pc), its locals
   (id, key, cred: the TemporaryCredential object it fetched, todo: the keys
   still to clean, tmp: the use_count it read or the count so far), and, once
   it has returned, what the call returned (res) and logged (log).
     inject       inject_env / inject_tls -> inject_track -> inject_read -> inject_mark
     cleanup      cleanup_env -> cleanup_del -> cleanup_track -> cleanup_untrack
     cleanup_all  cleanup of each key of a snapshot of the tracking map
     revoke       cleanup of each tracked key of the credential, then revoke_del *)

MTCreateArgs ==
    { <<<<"a">>, "v1", None, None, "process">>,
      <<<<"b">>, "v2", None, Some(2), "thread">> }
MTKeyArgs == {None, KeyE}
MTKeys == {KeyE, DefaultKey(<<"a">>)}

InitMT ==
    /\ InitCommon
    /\ default_ttl = 0 /\ default_max_uses = 1
    /\ environ = EmptyMap

AllIdle == \A t \in Threads : thr[t].pc = "idle"

SetThread(t, frame) == thr' = [thr EXCEPT ![t] = frame]
Returned(res, log) == [IdleThread EXCEPT !.res = res, !.log = log]

\* inject up to the scope dispatch: the lookup and the is_valid test
MTInject(t, id, env_key) ==
    /\ thr[t].pc = "idle"
    /\ IF id \notin DOMAIN credentials \/ ~IsValid(credentials[id])
       THEN SetThread(t, Returned(Ret("inject", InjectResult(InjState, id, env_key)), <<>>))
       ELSE LET c == credentials[id]
            IN SetThread(t, [IdleThread EXCEPT
                   !.op = "inject", !.id = id, !.key = ResolveKey(c, env_key),
                   !.cred = Some(c),
                   !.pc = CASE c.scope = "process" -> "inject_env"
                            [] c.scope = "thread" -> "inject_tls"
                            [] OTHER -> "inject_read"])
    /\ UNCHANGED <<now, ret, audit, injVars, regVars, logVars, extVars>>

\* os.environ[env_key] = credential.value
MTInjectEnv(t) ==
    /\ thr[t].pc = "inject_env"
    /\ IF IllegalKey(thr[t].key)
       THEN /\ SetThread(t, Returned(Ret("inject",
                   FailResult(thr[t].id, "illegal environment variable name")), <<>>))
            /\ environ' = environ
       ELSE /\ SetThread(t, [thr[t] EXCEPT !.pc = "inject_track"])
            /\ environ' = MapPut(environ, thr[t].key, thr[t].cred[1].value)
    /\ UNCHANGED <<now, ret, audit, default_ttl, default_max_uses, credentials, next_id,
                   injected_env_keys, thread_local, ctx, regVars, logVars, extVars>>

\* self._injected_env_keys[env_key] = credential_id
MTInjectTrack(t) ==
    /\ thr[t].pc = "inject_track"
    /\ injected_env_keys' = DictSet(injected_env_keys, thr[t].key, thr[t].id)
    /\ SetThread(t, [thr[t] EXCEPT !.pc = "inject_read"])
    /\ UNCHANGED <<now, ret, audit, default_ttl, default_max_uses, credentials, next_id,
                   environ, thread_local, ctx, regVars, logVars, extVars>>

\* self._thread_local[thread_id][env_key] = credential.value
MTInjectTls(t) ==
    /\ thr[t].pc = "inject_tls"
    /\ thread_local' =
          MapPut(thread_local, t,
                 MapPut(IF t \in DOMAIN thread_local THEN thread_local[t] ELSE EmptyMap,
                        thr[t].key, thr[t].cred[1].value))
    /\ SetThread(t, [thr[t] EXCEPT !.pc = "inject_read"])
    /\ UNCHANGED <<now, ret, audit, default_ttl, default_max_uses, credentials, next_id,
                   environ, injected_env_keys, ctx, regVars, logVars, extVars>>

\* mark_used, the read of `self.use_count += 1`; an object a revoke has taken
\* out of the store keeps the count the thread saw when it fetched it
MTInjectRead(t) ==
    /\ thr[t].pc = "inject_read"
    /\ SetThread(t, [thr[t] EXCEPT
           !.pc = "inject_mark",
           !.tmp = IF thr[t].id \in DOMAIN credentials
                   THEN credentials[thr[t].id].use_count
                   ELSE thr[t].cred[1].use_count])
    /\ UNCHANGED <<now, ret, audit, injVars, regVars, logVars, extVars>>

\* mark_used, the write of `self.use_count += 1`; log_credential_used; return
MTInjectMark(t) ==
    /\ thr[t].pc = "inject_mark"
    /\ LET used == [thr[t].cred[1] EXCEPT !.use_count = thr[t].tmp + 1]
       IN /\ credentials' = IF thr[t].id \in DOMAIN credentials
                            THEN [credentials EXCEPT ![thr[t].id].use_count = thr[t].tmp + 1]
                            ELSE credentials
          /\ SetThread(t, Returned(Ret("inject", OkResult(thr[t].id, used.value, thr[t].key)),
                                   <<LogCredentialUsed(used, thr[t].key)>>))
    /\ UNCHANGED <<now, ret, audit, default_ttl, default_max_uses, next_id, environ,
                   injected_env_keys, thread_local, ctx, regVars, logVars, extVars>>

\* the call of cleanup(env_key)
MTCleanup(t, env_key) ==
    /\ thr[t].pc = "idle"
    /\ SetThread(t, [IdleThread EXCEPT !.op = "cleanup", !.key = env_key,
                                       !.pc = "cleanup_env"])
    /\ UNCHANGED <<now, ret, audit, injVars, regVars, logVars, extVars>>

\* the call of cleanup_all: list(self._injected_env_keys.keys())
MTCleanupAll(t) ==
    /\ thr[t].pc = "idle"
    /\ LET keys == DictKeys(injected_env_keys)
       IN IF keys = <<>>
          THEN SetThread(t, Returned(Ret("cleanup_all", 0), <<>>))
          ELSE SetThread(t, [IdleThread EXCEPT !.op = "cleanup_all", !.key = Head(keys),
                                               !.todo = Tail(keys), !.pc = "cleanup_env"])
    /\ UNCHANGED <<now, ret, audit, injVars, regVars, logVars, extVars>>

\* the call of revoke: the membership test, the fetch and keys_to_clean
MTRevoke(t, id) ==
    /\ thr[t].pc = "idle"
    /\ IF id \notin DOMAIN credentials
       THEN SetThread(t, Returned(Ret("revoke", FALSE), <<>>))
       ELSE LET keys == DictKeys(SelectSeq(injected_env_keys, LAMBDA p : p[2] = id))
                frame == [IdleThread EXCEPT !.op = "revoke", !.id = id,
                                            !.cred = Some(credentials[id])]
            IN IF keys = <<>>
               THEN SetThread(t, [frame EXCEPT !.pc = "revoke_del"])
               ELSE SetThread(t, [frame EXCEPT !.key = Head(keys), !.todo = Tail(keys),
                                               !.pc = "cleanup_env"])
    /\ UNCHANGED <<now, ret, audit, injVars, regVars, logVars, extVars>>

\* cleanup: `if env_key in os.environ`
MTCleanupEnv(t) ==
    /\ thr[t].pc = "cleanup_env"
    /\ SetThread(t, [thr[t] EXCEPT !.pc = IF thr[t].key \in DOMAIN environ
                                          THEN "cleanup_del" ELSE "cleanup_track"])
    /\ UNCHANGED <<now, ret, audit, injVars, regVars, logVars, extVars>>

\* cleanup: `del os.environ[env_key]`, a KeyError when the key has gone meanwhile
MTCleanupDel(t) ==
    /\ thr[t].pc = "cleanup_del"
    /\ IF thr[t].key \in DOMAIN environ
       THEN /\ environ' = MapDel(environ, thr[t].key)
            /\ SetThread(t, [thr[t] EXCEPT !.pc = "cleanup_track"])
       ELSE /\ environ' = environ
            /\ SetThread(t, Returned(Ret(thr[t].op, "KeyError"), thr[t].log))
    /\ UNCHANGED <<now, ret, audit, default_ttl, default_max_uses, credentials, next_id,
                   injected_env_keys, thread_local, ctx, regVars, logVars, extVars>>

\* where a thread goes when its cleanup(key) has returned
AfterCleanup(frame) ==
    CASE frame.op = "cleanup" -> Returned(Ret("cleanup", TRUE), frame.log)
      [] frame.op = "cleanup_all" /\ frame.todo = <<>> ->
            Returned(Ret("cleanup_all", frame.tmp + 1), frame.log)
      [] frame.op = "revoke" /\ frame.todo = <<>> ->
            [frame EXCEPT !.pc = "revoke_del", !.key = None]
      [] OTHER ->
            [frame EXCEPT !.pc = "cleanup_env", !.key = Head(frame.todo),
                          !.todo = Tail(frame.todo),
                          !.tmp = IF frame.op = "cleanup_all" THEN frame.tmp + 1
                                  ELSE frame.tmp]

\* cleanup: `if env_key in self._injected_env_keys`
MTCleanupTrack(t) ==
    /\ thr[t].pc = "cleanup_track"
    /\ SetThread(t, IF DictHas(injected_env_keys, thr[t].key)
                    THEN [thr[t] EXCEPT !.pc = "cleanup_untrack"]
                    ELSE AfterCleanup(thr[t]))
    /\ UNCHANGED <<now, ret, audit, injVars, regVars, logVars, extVars>>

\* cleanup: the fetch of cred_id, `del self._injected_env_keys[env_key]` (a
\* KeyError when the entry has gone meanwhile) and the audit event
MTCleanupUntrack(t) ==
    /\ thr[t].pc = "cleanup_untrack"
    /\ IF DictHas(injected_env_keys, thr[t].key)
       THEN LET cred_id == DictGet(injected_env_keys, thr[t].key)
                keys1 == DictDel(injected_env_keys, thr[t].key)
                other == \E v \in DictValues(keys1) : IdStr(v) = thr[t].key
                log1 == IF ~other /\ cred_id \in DOMAIN credentials
                        THEN Append(thr[t].log,
                                    LogCredentialCleaned(credentials[cred_id], thr[t].key))
                        ELSE thr[t].log
            IN /\ injected_env_keys' = keys1
               /\ SetThread(t, AfterCleanup([thr[t] EXCEPT !.log = log1]))
       ELSE /\ injected_env_keys' = injected_env_keys
            /\ SetThread(t, Returned(Ret(thr[t].op, "KeyError"), thr[t].log))
    /\ UNCHANGED <<now, ret, audit, default_ttl, default_max_uses, credentials, next_id,
                   environ, thread_local, ctx, regVars, logVars, extVars>>

\* revoke: `del self._credentials[credential_id]` (a KeyError when another
\* revoke has deleted it meanwhile) and log_credential_revoked
MTRevokeDel(t) ==
    /\ thr[t].pc = "revoke_del"
    /\ IF thr[t].id \in DOMAIN credentials
       THEN /\ credentials' = MapDel(credentials, thr[t].id)
            /\ SetThread(t, Returned(Ret("revoke", TRUE),
                                     Append(thr[t].log,
                                            LogCredentialRevoked(credentials[thr[t].id]))))
       ELSE /\ credentials' = credentials
            /\ SetThread(t, Returned(Ret("revoke", "KeyError"), thr[t].log))
    /\ UNCHANGED <<now, ret, audit, default_ttl, default_max_uses, next_id, environ,
                   injected_env_keys, thread_local, ctx, regVars, logVars, extVars>>

NextMT ==
    \/ \E args \in MTCreateArgs : CreateCredential(args)
    \/ \E t \in Threads :
          \/ \E id \in CredIds, k \in MTKeyArgs : MTInject(t, id, k)
          \/ MTInjectEnv(t)
          \/ MTInjectTrack(t)
          \/ MTInjectTls(t)
          \/ MTInjectRead(t)
          \/ MTInjectMark(t)
          \/ \E k \in MTKeys : MTCleanup(t, k)
          \/ MTCleanupAll(t)
          \/ \E id \in CredIds : MTRevoke(t, id)
          \/ MTCleanupEnv(t)
          \/ MTCleanupDel(t)
          \/ MTCleanupTrack(t)
          \/ MTCleanupUntrack(t)
          \/ MTRevokeDel(t)

SpecMT == InitMT /\ [][NextMT]_vars

\* C11: calls of different threads are serialized: with no call in progress
\* every key in the environment (all put there by this injector) is tracked,
\* so that cleanup_all removes it, and a credential with max_uses = 1 has not
\* been injected successfully by two threads.
C11_Serialized ==
    /\ AllIdle => \A k \in DOMAIN environ : DictHas(injected_env_keys, k)
    /\ \A t1, t2 \in Threads :
          (/\ t1 # t2
           /\ thr[t1].res.op = "inject" /\ thr[t1].res.val.success
           /\ thr[t2].res.op = "inject" /\ thr[t2].res.val.success
           /\ thr[t1].res.val.credential_id = thr[t2].res.val.credential_id)
          => \A id \in DOMAIN credentials :
                id = thr[t1].res.val.credential_id => credentials[id].max_uses # 1

----------------------------------------------------------------------------
(* AuditLogger and AuditEvent (security/audit.py)                          *)
(* A details value is a string, a dict or a list:                          *)
(*   [kind |-> "str", v |-> ...], [kind |-> "dict", items |-> <<k, node>>*],*)
(*   [kind |-> "list", items |-> node*].  Dict keys are character sequences.*)
(* An event carries n, its ordinal among the events the logger built: the  *)
(* object's identity, which is no part of what is signed.                  *)

MaxEvents == 2        \* calls of AuditLogger.log
MaxIOErrors == 1      \* flushes that fail with an I/O error
SmallBufferSize == 2  \* the buffer_size the file-backed loggers are built with

StrV(v) == [kind |-> "str", v |-> v]
DictV(items) == [kind |-> "dict", items |-> items]
ListV(items) == [kind |-> "list", items |-> items]
Redacted == StrV("***REDACTED***")

\* AuditLogger._sensitive_fields
SensitiveFields ==
    {<<"p", "a", "s", "s", "w", "o", "r", "d">>,
     <<"s", "e", "c", "r", "e", "t">>,
     <<"t", "o", "k", "e", "n">>,
     <<"k", "e", "y">>,
     <<"c", "r", "e", "d", "e", "n", "t", "i", "a", "l">>,
     <<"a", "p", "i", "_", "k", "e", "y">>,
     <<"p", "r", "i", "v", "a", "t", "e", "_", "k", "e", "y">>,
     <<"a", "u", "t", "h">>,
     <<"v", "a", "l", "u", "e">>,
     <<"p", "a", "y", "l", "o", "a", "d">>}

\* a filter that redacts only the keys that are sensitive fields themselves
IsSensitiveKey_exact(key) == Lower(key) \in SensitiveFields

\* any(s in key.lower() for s in self._sensitive_fields)
IsSensitiveKey(key) == \E s \in SensitiveFields : Contains(s, Lower(key))

\* _filter_sensitive: a sensitive key is redacted, a dict value is filtered
\* recursively, every other value (a list included) is kept as it is
RECURSIVE FilterSensitive(_)
FilterSensitive(items) ==
    [i \in 1..Len(items) |->
        LET key == items[i][1]
            value == items[i][2]
        IN IF IsSensitiveKey(key) THEN <<key, Redacted>>
           ELSE IF value.kind = "dict" THEN <<key, DictV(FilterSensitive(value.items))>>
           ELSE <<key, value>>]

\* json.dumps(..., sort_keys=True) of a details value: a dict is written with
\* its keys sorted, so its encoding does not depend on the insertion order
RECURSIVE JsonSorted(_)
JsonSorted(node) ==
    CASE node.kind = "str"  -> <<"s", node.v>>
      [] node.kind = "dict" ->
            <<"d", {<<node.items[i][1], JsonSorted(node.items[i][2])>> :
                        i \in 1..Len(node.items)}>>
      [] node.kind = "list" ->
            <<"l", [i \in 1..Len(node.items) |-> JsonSorted(node.items[i])]>>

SigningPayload_noresource(e) ==
    [event_type |-> e.event_type, timestamp |-> e.timestamp,
     action |-> e.action, result |-> e.result,
     details |-> JsonSorted(DictV(e.details))]

\* _signing_payload: to_dict() without the signature, keys sorted
SigningPayload(e) ==
    [event_type |-> e.event_type, timestamp |-> e.timestamp, resource |-> e.resource,
     action |-> e.action, result |-> e.result,
     details |-> JsonSorted(DictV(e.details))]

\* hmac.new(key, payload, sha256).hexdigest(), taken as collision-free
Hmac(key, payload) == <<"hmac-sha256", key, payload>>

\* AuditEvent.sign
Sign(e, key) == [e EXCEPT !.signature = Some(Hmac(key, SigningPayload(e)))]

\* AuditEvent.verify
Verify(e, key) ==
    IF e.signature = None THEN FALSE
    ELSE e.signature[1] = Hmac(key, SigningPayload(e))

\* AuditEvent(...) as AuditLogger.log builds it
NewEvent(n, event_type, resource, action, result, details, t) ==
    [n |-> n, event_type |-> event_type, timestamp |-> t, resource |-> resource,
     action |-> action, result |-> result, details |-> details, signature |-> None]

\* to_json: one line of the log file; from_dict(json.loads(line)) gives the
\* event back, and raises on a line that is no event
ToJson(e) == [kind |-> "json", data |-> e]
GarbageLine == [kind |-> "garbage"]
RetypedLine(e) == [kind |-> "retyped", data |-> e]
Parses(line) == line.kind = "json"
Retyped(line) == line.kind = "retyped"
FromJson(line) == line.data

\* ---- AuditLogger: the methods as state transformers ----
LogState == [buffer |-> log_buffer, store |-> log_store, io_errors |-> io_errors,
             raised |-> FALSE]

FlushSt_keep(s, fail) ==
    IF s.buffer = <<>> THEN s
    ELSE IF log_cfg.log_file /\ fail # None
    THEN [s EXCEPT !.store = s.store \o [i \in 1..fail[1] |-> ToJson(s.buffer[i])],
                   !.io_errors = s.io_errors + 1,
                   !.raised = TRUE]
    ELSE [s EXCEPT !.store = IF log_cfg.log_file
                             THEN s.store \o [i \in 1..Len(s.buffer) |-> ToJson(s.buffer[i])]
                             ELSE s.store]
FlushSt_drop(s, fail) ==
    IF s.buffer = <<>> THEN s
    ELSE IF log_cfg.log_file /\ fail # None
    THEN [s EXCEPT !.store = s.store \o [i \in 1..fail[1] |-> ToJson(s.buffer[i])],
                   !.io_errors = s.io_errors + 1,
                   !.raised = TRUE,
                   !.buffer = <<>>]
    ELSE [s EXCEPT !.store = IF log_cfg.log_file
                             THEN s.store \o [i \in 1..Len(s.buffer) |-> ToJson(s.buffer[i])]
                             ELSE s.store,
                   !.buffer = <<>>]

\* flush; fail is None, or Some(k): the write of the file raises an I/O error
\* after k complete lines have reached the file
FlushSt(s, fail) ==
    IF s.buffer = <<>> THEN s
    ELSE IF log_cfg.log_file /\ fail # None
    THEN [s EXCEPT !.store = s.store \o [i \in 1..fail[1] |-> ToJson(s.buffer[i])],
                   !.io_errors = s.io_errors + 1,
                   !.raised = TRUE]
    ELSE [s EXCEPT !.store = IF log_cfg.log_file
                             THEN s.store \o [i \in 1..Len(s.buffer) |-> ToJson(s.buffer[i])]
                             ELSE s.store,
                   !.buffer = <<>>]

\* the event as _add_event stores it: filtered, then signed
Prepared(event) ==
    LET filtered == IF log_cfg.filter_sensitive
                    THEN [event EXCEPT !.details = FilterSensitive(event.details)]
                    ELSE event
    IN IF log_cfg.signing_key # None
       THEN Sign(filtered, log_cfg.signing_key[1])
       ELSE filtered

\* an _add_event that flushes only once the buffer is over its size
AddEventSt_over(s, event, fail) ==
    LET s1 == [s EXCEPT !.buffer = Append(s.buffer, Prepared(event))]
    IN IF log_cfg.auto_flush /\ Len(s1.buffer) > log_cfg.buffer_size
       THEN FlushSt(s1, fail)
       ELSE s1

\* _add_event
AddEventSt(s, event, fail) ==
    LET s1 == [s EXCEPT !.buffer = Append(s.buffer, Prepared(event))]
    IN IF log_cfg.auto_flush /\ Len(s1.buffer) >= log_cfg.buffer_size
       THEN FlushSt(s1, fail)
       ELSE s1

\* the filters of query
Matches(e, q) ==
    /\ q.event_type # None => e.event_type = q.event_type[1]
    /\ q.resource # None => e.resource = q.resource[1]
    /\ q.start_time # None => ~(e.timestamp < q.start_time[1])
    /\ q.end_time # None => ~(e.timestamp > q.end_time[1])

\* the loop of query over the lines of the file, from line i on.  A line that
\* json.loads cannot read, or that lacks a field, raises an error the loop
\* catches; a line whose timestamp is no string makes fromisoformat raise
\* TypeError, which the loop does not catch: query ends with that exception.
RECURSIVE QueryLoop(_, _, _, _)
QueryLoop(lines, i, q, results) ==
    IF i > Len(lines) THEN [results |-> results, raised |-> FALSE]
    ELSE IF Retyped(lines[i]) THEN [results |-> <<>>, raised |-> TRUE]
    ELSE IF ~Parses(lines[i]) THEN QueryLoop(lines, i + 1, q, results)
    ELSE LET event == FromJson(lines[i])
         IN IF log_cfg.signing_key # None /\ ~Verify(event, log_cfg.signing_key[1])
            THEN QueryLoop(lines, i + 1, q, results)
            ELSE IF ~Matches(event, q)
            THEN QueryLoop(lines, i + 1, q, results)
            ELSE IF Len(results) + 1 >= q.limit
            THEN [results |-> Append(results, event), raised |-> FALSE]
            ELSE QueryLoop(lines, i + 1, q, Append(results, event))

\* a query that also looks into the buffer
QueryResult_buffer(q) ==
    IF ~log_cfg.log_file
    THEN [results |-> log_buffer, raised |-> FALSE]
    ELSE [results |-> QueryLoop(log_store, 1, q, <<>>).results \o log_buffer,
          raised |-> QueryLoop(log_store, 1, q, <<>>).raised]

QueryResult(q) ==
    IF ~log_cfg.log_file
    THEN [results |-> <<>>, raised |-> FALSE]
    ELSE QueryLoop(log_store, 1, q, <<>>)

\* ---- AuditLogger: what the callers pass ----
KeyK1 == "k1"
KeyK2 == "k2"
LogConfigs ==
    {[log_file |-> TRUE, signing_key |-> Some(KeyK1), filter_sensitive |-> TRUE,
      buffer_size |-> SmallBufferSize, auto_flush |-> TRUE],
     [log_file |-> TRUE, signing_key |-> None, filter_sensitive |-> TRUE,
      buffer_size |-> SmallBufferSize, auto_flush |-> FALSE],
     [log_file |-> FALSE, signing_key |-> Some(KeyK1), filter_sensitive |-> TRUE,
      buffer_size |-> SmallBufferSize, auto_flush |-> TRUE],
     [log_file |-> TRUE, signing_key |-> Some(KeyK1), filter_sensitive |-> FALSE,
      buffer_size |-> SmallBufferSize, auto_flush |-> FALSE]}

KeyUser == <<"u", "s", "e", "r">>
KeyPasswordCap == <<"P", "a", "s", "s", "w", "o", "r", "d">>
KeyMeta == <<"m", "e", "t", "a">>
KeyTokenName == <<"t", "o", "k", "e", "n">>
KeyItems == <<"i", "t", "e", "m", "s">>
KeySecretName == <<"s", "e", "c", "r", "e", "t">>

PlainDetails == <<<<KeyUser, StrV("alice")>>>>
NestedDetails ==
    <<<<KeyPasswordCap, StrV("pw")>>,
      <<KeyMeta, DictV(<<<<KeyTokenName, StrV("tk")>>>>)>>,
      <<KeyItems, ListV(<<DictV(<<<<KeySecretName, StrV("s3")>>>>)>>)>>>>

\* log(event_type, resource, action, result, details)
LogArgs ==
    {<<"secret_read", "db", "read", "success", PlainDetails>>,
     <<"config_access", "api", "load", "failure", NestedDetails>>}

\* query(event_type, resource, start_time, end_time, limit)
DefaultLimit == 100
QueryArgs ==
    {[event_type |-> None, resource |-> None, start_time |-> None,
      end_time |-> None, limit |-> DefaultLimit],
     [event_type |-> None, resource |-> None, start_time |-> None,
      end_time |-> None, limit |-> 0],
     [event_type |-> None, resource |-> None, start_time |-> None,
      end_time |-> None, limit |-> 1],
     [event_type |-> Some("secret_read"), resource |-> None, start_time |-> Some(1),
      end_time |-> None, limit |-> 2],
     [event_type |-> None, resource |-> Some("db"), start_time |-> None,
      end_time |-> Some(1), limit |-> 2]}

\* what someone with access to the file can do to one of its lines
TamperKinds == {"resource", "unsign", "resign", "garbage", "retype"}
Tampered(line, kind) ==
    CASE kind = "resource" -> ToJson([line.data EXCEPT !.resource = "evil"])
      [] kind = "unsign"   -> ToJson([line.data EXCEPT !.signature = None])
      [] kind = "resign"   -> ToJson(Sign(line.data, KeyK2))
      [] kind = "garbage"  -> GarbageLine
      [] kind = "retype"   -> RetypedLine(line.data)

\* the line is as flush wrote it
AsWritten(line) ==
    /\ Parses(line)
    /\ line.data.resource # "evil"
    /\ IF log_cfg.signing_key = None
       THEN line.data.signature = None
       ELSE Verify(line.data, log_cfg.signing_key[1])

\* ---- AuditLogger: the actions ----
InitLog ==
    /\ InitShared
    /\ log_cfg \in LogConfigs
    /\ default_ttl = 0
    /\ default_max_uses = 1
    /\ environ = EmptyMap

SetLog(s) ==
    /\ log_buffer' = s.buffer
    /\ log_store' = s.store
    /\ io_errors' = s.io_errors

FailChoices(n) ==
    {None} \cup (IF io_errors < MaxIOErrors THEN {Some(k) : k \in 0..(n - 1)} ELSE {})

Log(args, fail) ==
    /\ log_n < MaxEvents
    /\ \E s \in {AddEventSt(LogState,
                            NewEvent(log_n + 1, args[1], args[2], args[3], args[4],
                                     args[5], now),
                            fail)} :
          /\ s.raised = (fail # None)
          /\ SetLog(s)
          /\ ret' = Ret("log", IF s.raised THEN "IOError" ELSE "ok")
    /\ log_n' = log_n + 1
    /\ UNCHANGED <<now, audit, injVars, regVars, mtVars, extVars, log_cfg>>

Flush(fail) ==
    /\ \E s \in {FlushSt(LogState, fail)} :
          /\ s.raised = (fail # None)
          /\ SetLog(s)
          /\ ret' = Ret("flush", IF s.raised THEN "IOError" ELSE "ok")
    /\ UNCHANGED <<now, audit, injVars, regVars, mtVars, extVars, log_cfg, log_n>>

Query(q) ==
    /\ \E r \in {QueryResult(q)} :
          ret' = Ret("query", [q |-> q, results |-> r.results, raised |-> r.raised])
    /\ UNCHANGED <<now, audit, injVars, regVars, auxVars>>

Tamper(i, kind) ==
    /\ i \in 1..Len(log_store)
    /\ AsWritten(log_store[i])
    /\ log_store' = [log_store EXCEPT ![i] = Tampered(log_store[i], kind)]
    /\ ret' = Ret("none", FALSE)
    /\ UNCHANGED <<now, audit, injVars, regVars, mtVars, extVars, log_cfg, log_buffer, log_n,
                   io_errors>>

\* one caller that logs and flushes, on a disk that may fail
NextLog ==
    \/ Tick
    \/ \E args \in LogArgs : \E fail \in FailChoices(Len(log_buffer) + 1) : Log(args, fail)
    \/ \E fail \in FailChoices(Len(log_buffer)) : Flush(fail)

SpecLog == InitLog /\ [][NextLog]_vars

\* one caller that logs, flushes and queries, and someone who edits the file
NextQuery ==
    \/ Tick
    \/ \E args \in LogArgs : Log(args, None)
    \/ Flush(None)
    \/ \E q \in QueryArgs : Query(q)
    \/ \E i \in 1..MaxEvents : \E kind \in TamperKinds : Tamper(i, kind)

SpecQuery == InitLog /\ [][NextQuery]_vars

----------------------------------------------------------------------------
(* Threads calling into one AuditLogger.  audit.py takes no lock; a step is *)
(* one access to the shared list or to the file.  A thread's file object    *)
(* collects the lines it is given (frame field todo) and appends them to    *)
(* the file when the `with` block closes it.                               *)
InitLogMT ==
    /\ InitShared
    /\ log_cfg \in {c \in LogConfigs : c.log_file /\ c.filter_sensitive}
    /\ default_ttl = 0
    /\ default_max_uses = 1
    /\ environ = EmptyMap

InFlush(t) == thr[t].pc \in {"flush_test", "flush_write", "flush_clear"}

\* log up to self._buffer.append(event)
LMLog(t, args) ==
    /\ thr[t].pc = "idle"
    /\ log_n < MaxEvents
    /\ log_n' = log_n + 1
    /\ log_buffer' = Append(log_buffer,
                            Prepared(NewEvent(log_n + 1, args[1], args[2], args[3],
                                              args[4], args[5], now)))
    /\ SetThread(t, [IdleThread EXCEPT !.op = "log", !.pc = "log_check"])
    /\ UNCHANGED <<now, ret, audit, injVars, regVars, extVars, log_cfg, log_store, io_errors>>

\* if self._auto_flush and len(self._buffer) >= self._buffer_size
LMLogCheck(t) ==
    /\ thr[t].pc = "log_check"
    /\ IF log_cfg.auto_flush /\ Len(log_buffer) >= log_cfg.buffer_size
       THEN SetThread(t, [thr[t] EXCEPT !.pc = "flush_test"])
       ELSE SetThread(t, Returned(Ret("log", "ok"), <<>>))
    /\ UNCHANGED <<now, ret, audit, injVars, regVars, logVars, extVars>>

\* a call of flush
LMFlush(t) ==
    /\ thr[t].pc = "idle"
    /\ SetThread(t, [IdleThread EXCEPT !.op = "flush", !.pc = "flush_test"])
    /\ UNCHANGED <<now, ret, audit, injVars, regVars, logVars, extVars>>

\* if not self._buffer: return; otherwise the file is opened
LMFlushTest(t) ==
    /\ thr[t].pc = "flush_test"
    /\ IF log_buffer = <<>>
       THEN SetThread(t, Returned(Ret(thr[t].op, "ok"), <<>>))
       ELSE SetThread(t, [thr[t] EXCEPT !.pc = "flush_write", !.tmp = 0, !.todo = <<>>])
    /\ UNCHANGED <<now, ret, audit, injVars, regVars, logVars, extVars>>

\* for event in self._buffer: f.write(...); the list iterator holds an index
\* into the list as it is now.  When it is exhausted the file is closed.
LMFlushWrite(t) ==
    /\ thr[t].pc = "flush_write"
    /\ IF thr[t].tmp < Len(log_buffer)
       THEN /\ SetThread(t, [thr[t] EXCEPT
                   !.tmp = thr[t].tmp + 1,
                   !.todo = Append(thr[t].todo, ToJson(log_buffer[thr[t].tmp + 1]))])
            /\ UNCHANGED log_store
       ELSE /\ SetThread(t, [thr[t] EXCEPT !.pc = "flush_clear", !.todo = <<>>])
            /\ log_store' = log_store \o thr[t].todo
    /\ UNCHANGED <<now, ret, audit, injVars, regVars, extVars, log_cfg, log_buffer, log_n,
                   io_errors>>

\* self._buffer.clear()
LMFlushClear(t) ==
    /\ thr[t].pc = "flush_clear"
    /\ log_buffer' = <<>>
    /\ SetThread(t, Returned(Ret(thr[t].op, "ok"), <<>>))
    /\ UNCHANGED <<now, ret, audit, injVars, regVars, extVars, log_cfg, log_store, log_n,
                   io_errors>>

NextLogMT ==
    \/ Tick
    \/ \E t \in Threads :
          \/ \E args \in LogArgs : LMLog(t, args)
          \/ LMLogCheck(t)
          \/ LMFlush(t)
          \/ LMFlushTest(t)
          \/ LMFlushWrite(t)
          \/ LMFlushClear(t)

SpecLogMT == InitLogMT /\ [][NextLogMT]_vars

\* the number of lines of the file that hold event n
RECURSIVE Persisted(_, _)
Persisted(n, lines) ==
    IF lines = <<>> THEN 0
    ELSE (IF Parses(Head(lines)) /\ Head(lines).data.n = n THEN 1 ELSE 0)
         + Persisted(n, Tail(lines))
Buffered(n) == \E i \in 1..Len(log_buffer) : log_buffer[i].n = n

\* C12: log and flush of different threads exclude each other: at most one
\* flush is in flight, and once every call has returned each event that log
\* accepted is either still in the buffer and not in the file, or out of the
\* buffer and in the file exactly once.
C12_LogFlushAtomic ==
    /\ \A t1, t2 \in Threads : InFlush(t1) /\ InFlush(t2) => t1 = t2
    /\ AllIdle =>
          \A n \in 1..log_n :
             \/ Buffered(n) /\ Persisted(n, log_store) = 0
             \/ ~Buffered(n) /\ Persisted(n, log_store) = 1

----------------------------------------------------------------------------
(* AuditLogger, one caller: the claims *)

\* the lines flush writes for a buffer
Lines(buffer) == [i \in 1..Len(buffer) |-> ToJson(buffer[i])]

\* the step is a call of flush, or of log, that returned val
FlushStep(val) == now' = now /\ ret'.op = "flush" /\ ret'.val = val
LogStep(val) == now' = now /\ ret'.op = "log" /\ ret'.val = val /\ log_n' = log_n + 1

\* C13: a flush of a logger with a log file appends every buffered event to
\* the file as one line each, in the order logged, after the lines already
\* there, and empties the buffer; with an empty buffer it changes neither.
C13_FlushPersistsInOrder ==
    [][(FlushStep("ok") /\ log_cfg.log_file) =>
          IF log_buffer = <<>>
          THEN log_buffer' = <<>> /\ log_store' = log_store
          ELSE log_buffer' = <<>> /\ log_store' = log_store \o Lines(log_buffer)]_vars

C13_Witness ==
    /\ ret = Ret("flush", "ok")
    /\ log_cfg.log_file
    /\ log_buffer = <<>>
    /\ Len(log_store) = 2
    /\ Parses(log_store[1]) /\ log_store[1].data.n = 1
    /\ Parses(log_store[2]) /\ log_store[2].data.n = 2

\* the file grew by the first k of these lines, for some k
GrewByPrefix(lines) ==
    \E k \in 0..Len(lines) : log_store' = log_store \o SubSeq(lines, 1, k)

\* C14: an I/O error in flush reaches the caller, the caller of a log whose
\* auto-flush failed included, and takes no event out of the buffer: after
\* the failed flush the buffer holds every event it held (and the one log
\* just added), and the file grew by at most a prefix of their lines.
C14_FailedFlushKeepsEvents ==
    [][/\ io_errors' # io_errors => ret'.val = "IOError"
       /\ FlushStep("IOError") =>
             /\ log_buffer' = log_buffer
             /\ GrewByPrefix(Lines(log_buffer))
       /\ LogStep("IOError") =>
             /\ Len(log_buffer') = Len(log_buffer) + 1
             /\ SubSeq(log_buffer', 1, Len(log_buffer)) = log_buffer
             /\ log_buffer'[Len(log_buffer')].n = log_n'
             /\ GrewByPrefix(Lines(log_buffer'))]_vars

C14_Witness ==
    /\ ret = Ret("log", "IOError")
    /\ Len(log_buffer) = 2
    /\ Len(log_store) = 1
    /\ log_store[1] = ToJson(log_buffer[1])

\* the event carries the HMAC of its own payload under key
ValidFor(e, key) == e.signature = Some(Hmac(key, SigningPayload(e)))

\* the events of the file, in file order, that are signed with the logger's
\* key and pass the filters of q
ValidMatching(q) ==
    LET Test(line) == /\ Parses(line)
                      /\ ValidFor(line.data, log_cfg.signing_key[1])
                      /\ Matches(line.data, q)
        lines == SelectSeq(log_store, Test)
    IN [i \in 1..Len(lines) |-> lines[i].data]

\* C15: with a signing key, query returns no event of the file whose signature
\* does not verify under that key (tampered, unsigned, signed with another
\* key); such lines are skipped and the scan goes on to its end, so what is
\* returned is the valid matching events in file order, all of them unless
\* limit is reached.
C15_QuerySkipsInvalid ==
    (ret.op = "query" /\ log_cfg.signing_key # None) =>
        LET results == ret.val.results
            valid == ValidMatching(ret.val.q)
        IN /\ ~ret.val.raised
           /\ \A i \in 1..Len(results) : ValidFor(results[i], log_cfg.signing_key[1])
           /\ Len(results) <= Len(valid)
           /\ results = SubSeq(valid, 1, Len(results))
           /\ Len(results) < ret.val.q.limit => results = valid

\* the events of the file, in file order, that query does not skip
Matching(q) ==
    LET Test(line) == /\ Parses(line)
                      /\ log_cfg.signing_key # None =>
                            ValidFor(line.data, log_cfg.signing_key[1])
                      /\ Matches(line.data, q)
        lines == SelectSeq(log_store, Test)
    IN [i \in 1..Len(lines) |-> lines[i].data]

\* C16: for every limit >= 0 a query that returns gives at most limit events,
\* and they are the first matching events in file order.
C16_QueryLimit ==
    (ret.op = "query" /\ ~ret.val.raised /\ log_cfg.log_file) =>
        LET results == ret.val.results
            matching == Matching(ret.val.q)
        IN /\ Len(results) <= ret.val.q.limit
           /\ Len(results) <= Len(matching)
           /\ results = SubSeq(matching, 1, Len(results))
           /\ Len(results) < ret.val.q.limit => results = matching

----------------------------------------------------------------------------
(* AuditEvent.sign and AuditEvent.verify on their own: one event that is    *)
(* built, signed, changed field by field and verified.  ret holds the event,*)
(* what it was when it was last signed and with which key, and the last     *)
(* verify call.                                                             *)
SigKeys == {KeyK1, KeyK2}
EventFields == {"event_type", "timestamp", "resource", "action", "result", "details"}
FieldValues(f) ==
    CASE f = "event_type" -> {"secret_read", "config_access"}
      [] f = "timestamp"  -> 0..MaxTime
      [] f = "resource"   -> {"db", "api"}
      [] f = "action"     -> {"read", "load"}
      [] f = "result"     -> {"success", "failure"}
      [] f = "details"    -> {PlainDetails, NestedDetails}

InitSig ==
    /\ InitCommon
    /\ default_ttl = 0
    /\ default_max_uses = 1
    /\ environ = EmptyMap

SetEvent(event, signed, verified) ==
    /\ ret' = Ret("event", [event |-> event, signed |-> signed, verified |-> verified])
    /\ UNCHANGED <<now, audit, injVars, regVars, auxVars>>

\* AuditEvent(...), its timestamp the time of construction
SigNew(args, t) ==
    /\ ret.op = "none"
    /\ SetEvent(NewEvent(1, args[1], args[2], args[3], args[4], args[5], t), None, None)

SigSign(key) ==
    /\ ret.op = "event"
    /\ \E e \in {Sign(ret.val.event, key)} :
          SetEvent(e, Some([key |-> key, event |-> e]), None)

\* an assignment to one field other than signature
SigChange(f, v) ==
    /\ ret.op = "event"
    /\ ret.val.event[f] # v
    /\ SetEvent([ret.val.event EXCEPT ![f] = v], ret.val.signed, None)

\* event.signature = None
SigStrip ==
    /\ ret.op = "event"
    /\ ret.val.event.signature # None
    /\ SetEvent([ret.val.event EXCEPT !.signature = None], ret.val.signed, None)

SigVerify(key) ==
    /\ ret.op = "event"
    /\ SetEvent(ret.val.event, ret.val.signed,
                Some([key |-> key, result |-> Verify(ret.val.event, key)]))

NextSig ==
    \/ \E args \in LogArgs : \E t \in 0..MaxTime : SigNew(args, t)
    \/ \E key \in SigKeys : SigSign(key)
    \/ \E f \in EventFields : \E v \in FieldValues(f) : SigChange(f, v)
    \/ SigStrip
    \/ \E key \in SigKeys : SigVerify(key)

SpecSig == InitSig /\ [][NextSig]_vars

\* every field other than signature is what it was when the event was signed
Unchanged(event, signed) == \A f \in EventFields : event[f] = signed.event[f]

\* C17: verify(k) is true for an event signed with k and not changed since;
\* it is false once any field other than signature was changed, false under
\* any other key, and false for an event without signature.
C17_SignVerify ==
    (ret.op = "event" /\ ret.val.verified # None) =>
        LET event == ret.val.event
            key == ret.val.verified[1].key
            result == ret.val.verified[1].result
        IN /\ event.signature = None => ~result
           /\ (event.signature # None /\ ret.val.signed # None) =>
                 LET signed == ret.val.signed[1]
                 IN /\ (signed.key = key /\ Unchanged(event, signed)) => result
                    /\ ~Unchanged(event, signed) => ~result
                    /\ signed.key # key => ~result

C17_Witness ==
    /\ ret.op = "event"
    /\ ret.val.signed # None
    /\ ret.val.verified = Some([key |-> KeyK1, result |-> FALSE])
    /\ ret.val.signed[1].key = KeyK1
    /\ ret.val.event.signature # None
    /\ ret.val.event.resource # ret.val.signed[1].event.resource
    /\ \A f \in EventFields \ {"resource"} : ret.val.event[f] = ret.val.signed[1].event[f]

----------------------------------------------------------------------------
(* AuditLogger.log: redaction *)

\* every entry under a sensitive key holds the marker, through nested dicts
\* and lists
RECURSIVE FullyRedacted(_)
FullyRedacted(node) ==
    CASE node.kind = "str"  -> TRUE
      [] node.kind = "dict" ->
            \A i \in 1..Len(node.items) :
               IF IsSensitiveKey(node.items[i][1])
               THEN node.items[i][2] = Redacted
               ELSE FullyRedacted(node.items[i][2])
      [] node.kind = "list" ->
            \A i \in 1..Len(node.items) : FullyRedacted(node.items[i])

\* C18: log redacts before it signs: in a buffered event every details entry
\* whose key matches the sensitive-field set holds the redaction marker, at
\* every depth through nested maps and lists, and the signature is the one of
\* the redacted event.
C18_RedactedBeforeSigning ==
    log_cfg.filter_sensitive =>
        \A i \in 1..Len(log_buffer) :
           /\ FullyRedacted(DictV(log_buffer[i].details))
           /\ log_cfg.signing_key # None =>
                 ValidFor(log_buffer[i], log_cfg.signing_key[1])

----------------------------------------------------------------------------
(* SecurityCredentialManager: what reaches the audit log *)

\* _record_access: more than AnomalyFailures failures among the last
\* AnomalyWindow accesses, looked at once the history is longer than that
AnomalyWindow == 10
AnomalyFailures == 5
Anomalous(h) ==
    /\ Len(h) > AnomalyWindow
    /\ Cardinality({i \in (Len(h) - AnomalyWindow + 1)..Len(h) : ~h[i]}) > AnomalyFailures

\* C19: every security-relevant failure is also an audit event: a
\* verify_credential that rejects the candidate for an Active credential, an
\* access history that crosses the anomaly threshold, and a reported leak each
\* append an event to the audit log.
C19_FailuresAudited ==
    [][/\ \A id \in RegIds : \A value \in SecretValues :
             (/\ VerifyStep(id, value)
              /\ Known(id) /\ Status(id) = "active" /\ ~Lapsed(records[id])
              /\ access_history' # access_history
              /\ \/ ~ret'.val.valid
                 \/ Anomalous(access_history'[id]))
             => audit' # <<>>
       /\ (leak_pc.pc = "marked" /\ leak_pc'.pc # "marked") =>
             SecurityViolations(audit') = SecurityViolations(audit) + 1]_vars

----------------------------------------------------------------------------
(* CryptoManager (config/crypto.py): encrypt, decrypt and their string forms.*)
(* bytes are sequences of 0..255, a str is a sequence of code points, a hex  *)
(* string a sequence of one-character strings.  AES-256-GCM is taken as a    *)
(* stream cipher with a 16-byte tag over nonce, ciphertext and associated    *)
(* data: the keystream and the tag are stand-ins that depend on the same     *)
(* inputs as the real ones, and the tag has no collisions on the inputs used *)
(* here, as the real one is taken to have none.                              *)

MaxPlain == 2      \* bytes of a plaintext, characters of a string
KeySize == 32
NonceSize == 12
TagSize == 16

MasterKey == [i \in 1..KeySize |-> (7 * i) % 256]
Nonces == {[i \in 1..NonceSize |-> 0], [i \in 1..NonceSize |-> (23 * i + 200) % 256]}
SeqsUpTo(S, n) == UNION {[1..k -> S] : k \in 0..n}
Plaintexts == SeqsUpTo({0, 65, 255}, MaxPlain)
AssociatedData == {None, Some(<<>>), Some(<<1>>)}
Strings == SeqsUpTo({65, 233}, MaxPlain)
AssociatedStrings == {None, Some(<<>>), Some(<<233>>)}

RECURSIVE SumSeq(_)
SumSeq(s) == IF s = <<>> THEN 0 ELSE Head(s) + SumSeq(Tail(s))

\* str.encode("utf-8") and bytes.decode("utf-8") for code points below 2048
RECURSIVE Utf8Encode(_)
Utf8Encode(s) ==
    IF s = <<>> THEN <<>>
    ELSE (IF Head(s) < 128
          THEN <<Head(s)>>
          ELSE <<192 + (Head(s) \div 64), 128 + (Head(s) % 64)>>)
         \o Utf8Encode(Tail(s))
RECURSIVE Utf8Decode(_)
Utf8Decode(b) ==
    IF b = <<>> THEN <<>>
    ELSE IF Head(b) < 128
    THEN <<Head(b)>> \o Utf8Decode(Tail(b))
    ELSE <<(Head(b) - 192) * 64 + (b[2] - 128)>> \o Utf8Decode(Tail(Tail(b)))
\* whether bytes.decode("utf-8") accepts b
RECURSIVE Utf8Valid(_)
Utf8Valid(b) ==
    IF b = <<>> THEN TRUE
    ELSE IF Head(b) < 128 THEN Utf8Valid(Tail(b))
    ELSE /\ Head(b) >= 194 /\ Head(b) < 224
         /\ Len(b) >= 2 /\ b[2] >= 128 /\ b[2] < 192
         /\ Utf8Valid(Tail(Tail(b)))

\* bytes.hex() and bytes.fromhex()
HexDigits == <<"0", "1", "2", "3", "4", "5", "6", "7",
               "8", "9", "a", "b", "c", "d", "e", "f">>
RECURSIVE HexOf(_)
HexOf(b) ==
    IF b = <<>> THEN <<>>
    ELSE <<HexDigits[(Head(b) \div 16) + 1], HexDigits[(Head(b) % 16) + 1]>>
         \o HexOf(Tail(b))
HexValue(c) == CHOOSE v \in 0..15 : HexDigits[v + 1] = c
IsHex(h) == Len(h) % 2 = 0 /\ \A i \in 1..Len(h) : \E v \in 0..15 : HexDigits[v + 1] = h[i]
FromHex(h) == [i \in 1..(Len(h) \div 2) |-> 16 * HexValue(h[2 * i - 1]) + HexValue(h[2 * i])]
\* Python's s[a:b] on a sequence
Slice(s, a, b) == SubSeq(s, a + 1, IF b < Len(s) THEN b ELSE Len(s))

\* what a call gives: an exception of class err, or a value
Raise(err) == [value |-> <<>>, error |-> err, raised |-> TRUE]
Returns(v) == [value |-> v, error |-> "", raised |-> FALSE]

\* AESGCM(key): the associated data None is the empty associated data
AdBytes(ad) == IF ad = None THEN <<>> ELSE ad[1]
KeyStream(key, nonce, i) ==
    (key[((i - 1) % KeySize) + 1] + nonce[((i - 1) % Len(nonce)) + 1] + i) % 256
\* bytes 1..12 of the tag carry the ciphertext, 13..14 the associated data,
\* 15 and 16 their lengths, each masked with key and nonce
GcmTag(key, nonce, ciphertext, ad) ==
    [i \in 1..TagSize |->
        (key[i] + nonce[((i - 1) % Len(nonce)) + 1]
         + (IF i <= 12 THEN (IF i <= Len(ciphertext) THEN ciphertext[i] ELSE 0)
            ELSE IF i <= 14
            THEN (IF i - 12 <= Len(AdBytes(ad)) THEN AdBytes(ad)[i - 12] ELSE 0)
            ELSE IF i = 15 THEN Len(AdBytes(ad))
            ELSE Len(ciphertext))) % 256]
\* AESGCM.encrypt: the ciphertext with the tag appended
AesGcmEncrypt(key, nonce, plaintext, ad) ==
    LET ciphertext == [i \in 1..Len(plaintext) |->
                          (plaintext[i] + KeyStream(key, nonce, i)) % 256]
    IN ciphertext \o GcmTag(key, nonce, ciphertext, ad)
\* AESGCM.decrypt: ValueError for a nonce shorter than 8 bytes, InvalidTag
\* unless the tag is the one of the ciphertext
AesGcmDecrypt(key, nonce, data, ad) ==
    IF Len(nonce) < 8 THEN Raise("ValueError")
    ELSE IF Len(data) < TagSize THEN Raise("InvalidTag")
    ELSE LET ciphertext == SubSeq(data, 1, Len(data) - TagSize)
             tag == SubSeq(data, Len(data) - TagSize + 1, Len(data))
         IN IF tag # GcmTag(key, nonce, ciphertext, ad)
            THEN Raise("InvalidTag")
            ELSE Returns([i \in 1..Len(ciphertext) |->
                                (ciphertext[i] - KeyStream(key, nonce, i)) % 256])

\* EncryptedData(ciphertext, nonce, tag), a triple
EncryptedData(ciphertext, nonce, tag) == <<ciphertext, nonce, tag>>
CiphertextOf(encrypted) == encrypted[1]
NonceOf(encrypted) == encrypted[2]
TagOf(encrypted) == encrypted[3]

\* CryptoManager.encrypt; nonce is what os.urandom returned
EncryptData(plaintext, ad, nonce) ==
    IF plaintext = <<>> THEN Raise("ValueError")
    ELSE LET out == AesGcmEncrypt(MasterKey, nonce, plaintext, ad)
         IN Returns(EncryptedData(SubSeq(out, 1, Len(out) - TagSize),
                                  nonce,
                                  SubSeq(out, Len(out) - TagSize + 1, Len(out))))

\* a decrypt that lets the library's exception through
DecryptData_propagate(encrypted, ad) ==
    AesGcmDecrypt(MasterKey, NonceOf(encrypted),
                  CiphertextOf(encrypted) \o TagOf(encrypted), ad)

\* CryptoManager.decrypt: every exception becomes an EncryptionError
DecryptData(encrypted, ad) ==
    LET plain == AesGcmDecrypt(MasterKey, NonceOf(encrypted),
                               CiphertextOf(encrypted) \o TagOf(encrypted), ad)
    IN IF plain.raised THEN Raise("EncryptionError") ELSE plain

\* associated_data.encode("utf-8") if associated_data else None
AdOfString(ad) == IF ad = None \/ ad[1] = <<>> THEN None ELSE Some(Utf8Encode(ad[1]))

EncryptString_tag_last(plaintext, ad, nonce) ==
    LET encrypted == EncryptData(Utf8Encode(plaintext), AdOfString(ad), nonce)
    IN IF encrypted.raised THEN encrypted
       ELSE Returns(HexOf(NonceOf(encrypted.value)) \o HexOf(CiphertextOf(encrypted.value))
                    \o HexOf(TagOf(encrypted.value)))

\* CryptoManager.encrypt_string
EncryptString(plaintext, ad, nonce) ==
    LET encrypted == EncryptData(Utf8Encode(plaintext), AdOfString(ad), nonce)
    IN IF encrypted.raised THEN encrypted
       ELSE Returns(HexOf(NonceOf(encrypted.value)) \o HexOf(TagOf(encrypted.value))
                    \o HexOf(CiphertextOf(encrypted.value)))

\* CryptoManager.decrypt_string
DecryptString(encrypted_hex, ad) ==
    LET hn == Slice(encrypted_hex, 0, 2 * NonceSize)
        ht == Slice(encrypted_hex, 2 * NonceSize, 2 * NonceSize + 2 * TagSize)
        hc == Slice(encrypted_hex, 2 * NonceSize + 2 * TagSize, Len(encrypted_hex))
    IN IF ~(IsHex(hn) /\ IsHex(ht) /\ IsHex(hc)) THEN Raise("EncryptionError")
       ELSE LET plain == DecryptData(EncryptedData(FromHex(hc), FromHex(hn), FromHex(ht)),
                                     AdOfString(ad))
            IN IF plain.raised \/ ~Utf8Valid(plain.value) THEN Raise("EncryptionError")
               ELSE Returns(Utf8Decode(plain.value))

\* x ^ y and x | y on non-negative integers
RECURSIVE BitXor(_, _)
BitXor(x, y) ==
    IF x = 0 /\ y = 0 THEN 0
    ELSE (((x % 2) + (y % 2)) % 2) + 2 * BitXor(x \div 2, y \div 2)
RECURSIVE BitOr(_, _)
BitOr(x, y) ==
    IF x = 0 /\ y = 0 THEN 0
    ELSE (IF x % 2 = 1 \/ y % 2 = 1 THEN 1 ELSE 0) + 2 * BitOr(x \div 2, y \div 2)
\* the loop over zip(a, b): result |= x ^ y
RECURSIVE CompareLoop(_, _, _)
CompareLoop(a, b, result) ==
    IF a = <<>> \/ b = <<>> THEN result
    ELSE CompareLoop(Tail(a), Tail(b), BitOr(result, BitXor(Head(a), Head(b))))

\* a comparison without the test of the lengths
ConstantTimeCompare_nolen(a, b) == CompareLoop(a, b, 0) = 0

\* CryptoManager.constant_time_compare
ConstantTimeCompare(a, b) ==
    IF Len(a) # Len(b) THEN FALSE
    ELSE CompareLoop(a, b, 0) = 0

\* ---- the calls ----
InitCrypto ==
    /\ InitCommon
    /\ default_ttl = 0
    /\ default_max_uses = 1
    /\ environ = EmptyMap

SetRet(r) ==
    /\ ret' = r
    /\ UNCHANGED <<now, audit, injVars, regVars, auxVars>>

Encrypt(plaintext, ad, nonce) ==
    SetRet(Ret("encrypt", [ad |-> ad, nonce |-> nonce, plaintext |-> plaintext,
                           out |-> EncryptData(plaintext, ad, nonce)]))

\* what somebody who does not hold the key can make of a blob
ForgeKinds == {"ciphertext", "tag", "nonce", "truncate", "cut_tag"}
ForgedBlob(encrypted, kind) ==
    LET ciphertext == CiphertextOf(encrypted)
        nonce == NonceOf(encrypted)
        tag == TagOf(encrypted)
    IN CASE kind = "ciphertext" ->
              EncryptedData([ciphertext EXCEPT ![1] = (@ + 1) % 256], nonce, tag)
         [] kind = "tag" ->
              EncryptedData(ciphertext, nonce, [tag EXCEPT ![TagSize] = (@ + 1) % 256])
         [] kind = "nonce" ->
              EncryptedData(ciphertext, [nonce EXCEPT ![1] = (@ + 1) % 256], tag)
         [] kind = "truncate" ->
              EncryptedData(SubSeq(ciphertext, 1, Len(ciphertext) - 1), nonce, tag)
         [] kind = "cut_tag" ->
              EncryptedData(ciphertext, nonce, SubSeq(tag, 1, TagSize - 1))

\* the same for the hex string of encrypt_string
ForgeStringKinds == {"digit", "tag_digit", "odd", "drop_byte", "cut", "short", "nonhex"}
OtherDigit(c) == IF c = "0" THEN "1" ELSE "0"
ForgedHex(hex, kind) ==
    CASE kind = "digit" -> [hex EXCEPT ![Len(hex)] = OtherDigit(@)]
      [] kind = "tag_digit" -> [hex EXCEPT ![2 * NonceSize + 1] = OtherDigit(@)]
      [] kind = "odd" -> SubSeq(hex, 1, Len(hex) - 1)
      [] kind = "drop_byte" -> SubSeq(hex, 1, Len(hex) - 2)
      [] kind = "cut" -> SubSeq(hex, 1, 2 * NonceSize + TagSize)
      [] kind = "short" -> SubSeq(hex, 1, NonceSize - 2)
      [] kind = "nonhex" -> [hex EXCEPT ![1] = "z"]

\* the blob of the last encrypt, altered in transit or at rest
Forge(kind) ==
    /\ ret.op = "encrypt"
    /\ ~ret.val.out.raised
    /\ SetRet(Ret("forge", [ad |-> ret.val.ad, nonce |-> ret.val.nonce,
                            plaintext |-> ret.val.plaintext,
                            out |-> Returns(ForgedBlob(ret.val.out.value, kind)),
                            sealed |-> ret.val.out.value]))

ForgeString(kind) ==
    /\ ret.op = "encrypt_string"
    /\ ~ret.val.out.raised
    /\ SetRet(Ret("forge_string", [ad |-> ret.val.ad, nonce |-> ret.val.nonce,
                                   plaintext |-> ret.val.plaintext,
                                   out |-> Returns(ForgedHex(ret.val.out.value, kind)),
                                   sealed |-> ret.val.out.value]))

\* decrypt of what the last encrypt returned, or of what was made of it
Decrypt(ad) ==
    /\ ret.op \in {"encrypt", "forge"}
    /\ ~ret.val.out.raised
    /\ SetRet(Ret("decrypt", [ad |-> ret.val.ad, plaintext |-> ret.val.plaintext,
                              out |-> DecryptData(ret.val.out.value, ad), with |-> ad,
                              sealed |-> IF ret.op = "forge" THEN ret.val.sealed
                                         ELSE ret.val.out.value,
                              blob |-> ret.val.out.value]))

EncryptStringCall(plaintext, ad, nonce) ==
    SetRet(Ret("encrypt_string", [ad |-> ad, nonce |-> nonce, plaintext |-> plaintext,
                                  out |-> EncryptString(plaintext, ad, nonce)]))

\* decrypt_string of what the last encrypt_string returned, or of what was
\* made of it
DecryptStringCall(ad) ==
    /\ ret.op \in {"encrypt_string", "forge_string"}
    /\ ~ret.val.out.raised
    /\ SetRet(Ret("decrypt_string", [ad |-> ret.val.ad, plaintext |-> ret.val.plaintext,
                                     out |-> DecryptString(ret.val.out.value, ad),
                                     with |-> ad,
                                     sealed |-> IF ret.op = "forge_string"
                                                THEN ret.val.sealed
                                                ELSE ret.val.out.value,
                                     blob |-> ret.val.out.value]))

ConstantTimeCompareCall(a, b) ==
    SetRet(Ret("constant_time_compare", [a |-> a, b |-> b,
                                         out |-> ConstantTimeCompare(a, b)]))

NextCrypto ==
    \/ \E p \in Plaintexts : \E ad \in AssociatedData : \E nonce \in Nonces :
          Encrypt(p, ad, nonce)
    \/ \E ad \in AssociatedData : Decrypt(ad)
    \/ \E s \in Strings : \E ad \in AssociatedStrings : \E nonce \in Nonces :
          EncryptStringCall(s, ad, nonce)
    \/ \E ad \in AssociatedStrings : DecryptStringCall(ad)
    \/ \E kind \in ForgeKinds : Forge(kind)
    \/ \E kind \in ForgeStringKinds : ForgeString(kind)
    \/ \E a \in Plaintexts : \E b \in Plaintexts : ConstantTimeCompareCall(a, b)

SpecCrypto == InitCrypto /\ [][NextCrypto]_vars

\* C20: for every non-empty plaintext P and associated data A,
\* decrypt(encrypt(P, A), A) = P; for every non-empty string S,
\* decrypt_string(encrypt_string(S, A), A) = S, and the encoded string is
\* hex(nonce), 24 characters, then hex(tag), 32 characters, then
\* hex(ciphertext).
C20_RoundTrip ==
    /\ (ret.op = "decrypt" /\ ret.val.blob = ret.val.sealed
         /\ ret.val.with = ret.val.ad) =>
          ret.val.out = Returns(ret.val.plaintext)
    /\ (ret.op = "decrypt_string" /\ ret.val.blob = ret.val.sealed
         /\ ret.val.with = ret.val.ad) =>
          ret.val.out = Returns(ret.val.plaintext)
    /\ (ret.op = "encrypt" /\ ret.val.plaintext # <<>>) =>
          /\ ~ret.val.out.raised
          /\ NonceOf(ret.val.out.value) = ret.val.nonce
          /\ Len(TagOf(ret.val.out.value)) = TagSize
          /\ Len(CiphertextOf(ret.val.out.value)) = Len(ret.val.plaintext)
    /\ (ret.op = "encrypt_string" /\ ret.val.plaintext # <<>>) =>
          /\ ~ret.val.out.raised
          /\ \E enc \in {EncryptData(Utf8Encode(ret.val.plaintext),
                                     AdOfString(ret.val.ad), ret.val.nonce).value} :
                LET hex == ret.val.out.value
                IN /\ SubSeq(hex, 1, 24) = HexOf(NonceOf(enc))
                   /\ SubSeq(hex, 25, 56) = HexOf(TagOf(enc))
                   /\ SubSeq(hex, 57, Len(hex)) = HexOf(CiphertextOf(enc))
                   /\ Len(hex) = 56 + 2 * Len(CiphertextOf(enc))

C20_Witness ==
    /\ ret.op = "decrypt_string"
    /\ ret.val.blob = ret.val.sealed
    /\ ret.val.with = ret.val.ad
    /\ ret.val.ad = Some(<<233>>)
    /\ ret.val.plaintext = <<65, 233>>
    /\ ret.val.out = Returns(<<65, 233>>)

\* C21: decrypt and decrypt_string fail closed.  Whenever the blob handed in
\* is not the one encrypt returned (ciphertext, tag or nonce altered, input
\* truncated) or the associated data differ from those of the encryption, the
\* call raises EncryptionError and returns nothing; and no call of either
\* ever raises an exception of another class.
C21_DecryptFailsClosed ==
    /\ ret.op = "decrypt" =>
          /\ ret.val.out.raised => ret.val.out = Raise("EncryptionError")
          /\ (ret.val.blob # ret.val.sealed
               \/ AdBytes(ret.val.with) # AdBytes(ret.val.ad)) =>
                 ret.val.out = Raise("EncryptionError")
    /\ ret.op = "decrypt_string" =>
          /\ ret.val.out.raised => ret.val.out = Raise("EncryptionError")
          /\ (ret.val.blob # ret.val.sealed
               \/ AdBytes(AdOfString(ret.val.with)) # AdBytes(AdOfString(ret.val.ad))) =>
                 ret.val.out = Raise("EncryptionError")

C21_Witness ==
    /\ ret.op = "decrypt"
    /\ ret.val.with = ret.val.ad
    /\ ret.val.blob = ForgedBlob(ret.val.sealed, "tag")
    /\ ret.val.out = Raise("EncryptionError")

\* C22: encrypt called with an empty plaintext fails with EncryptionError and
\* produces no EncryptedData.
C22_EmptyPlaintextRejected ==
    (ret.op = "encrypt" /\ ret.val.plaintext = <<>>) =>
        ret.val.out = Raise("EncryptionError")

\* C25: constant_time_compare(a, b) returns true exactly when a and b are
\* equal byte for byte: false for inputs of different lengths, and false for
\* inputs of one length that differ in at least one byte.
C25_ConstantTimeCompare ==
    ret.op = "constant_time_compare" =>
        /\ ret.val.out \in BOOLEAN
        /\ ret.val.out <=> (ret.val.a = ret.val.b)
        /\ Len(ret.val.a) # Len(ret.val.b) => ~ret.val.out
        /\ (/\ Len(ret.val.a) = Len(ret.val.b)
            /\ \E i \in 1..Len(ret.val.a) : ret.val.a[i] # ret.val.b[i]) => ~ret.val.out

C25_Witness ==
    /\ ret.op = "constant_time_compare"
    /\ ret.val.a = <<65, 255>>
    /\ ret.val.b = <<65, 0>>
    /\ ret.val.out = FALSE

----------------------------------------------------------------------------
(* SecureBytes (config/crypto.py), ProtectedString and MemoryGuard           *)
(* (security/memory.py).  An object is a record: klass, buf the bytearray    *)
(* _buffer, len the _size or _length fixed by the constructor, raw the       *)
(* immutable _bytes a ProtectedString keeps beside its buffer.               *)

MaxObjects == 2    \* objects on the heap

SecretBytes == {<<>>, <<7>>, <<65, 255>>}
SecretStrings == {<<>>, <<65>>, <<65, 233>>}
\* what protect is called with: Some(str), or None for a value that is not a str
ProtectArgs == {None} \cup {Some(value) : value \in SecretStrings}

Zeros(n) == [i \in 1..n |-> 0]

\* SecureBytes(data)
SecureBytesNew(data) ==
    [klass |-> "SecureBytes", buf |-> data, len |-> Len(data), raw |-> <<>>]
\* ProtectedString(value)
ProtectedStringNew(value) ==
    [klass |-> "ProtectedString", buf |-> Utf8Encode(value),
     len |-> Len(Utf8Encode(value)), raw |-> Utf8Encode(value)]

\* secure_zero(data, length) on a bytearray
SecureZero(data, length) ==
    LET target_len == IF length = None THEN Len(data) ELSE length[1]
    IN [i \in 1..Len(data) |->
          IF i <= target_len /\ i <= Len(data) THEN 0 ELSE data[i]]
\* SecureBytes.zero: for i in range(self._size): self._buffer[i] = 0
SecureBytesZero(o) == [o EXCEPT !.buf = [i \in 1..Len(@) |-> IF i <= o.len THEN 0 ELSE @[i]]]
\* ProtectedString.zero
ProtectedStringZero(o) == [o EXCEPT !.buf = SecureZero(@, None)]
ZeroObject(o) == IF o.klass = "SecureBytes" THEN SecureBytesZero(o) ELSE ProtectedStringZero(o)

\* a cleanup that forgets the strings without zeroing them
GuardCleanupSt_forget(h, protected) == h

\* MemoryGuard.cleanup: zero every protected string, first to last
RECURSIVE GuardCleanupSt(_, _)
GuardCleanupSt(h, protected) ==
    IF protected = <<>> THEN h
    ELSE GuardCleanupSt([h EXCEPT ![Head(protected)] = ProtectedStringZero(@)],
                        Tail(protected))

InitMem ==
    /\ InitCommon
    /\ default_ttl = 0
    /\ default_max_uses = 1
    /\ environ = EmptyMap

SetMem(r, h, scope, protected) ==
    /\ ret' = r
    /\ heap' = h
    /\ guard_scope' = scope
    /\ guard_protected' = protected
    /\ UNCHANGED <<now, audit, injVars, regVars, mtVars, logVars, vaultVars>>

NewSecureBytes(data) ==
    /\ Len(heap) < MaxObjects
    /\ SetMem(Ret("SecureBytes", Len(heap) + 1), Append(heap, SecureBytesNew(data)),
              guard_scope, guard_protected)

NewProtectedString(value) ==
    /\ Len(heap) < MaxObjects
    /\ SetMem(Ret("ProtectedString", Len(heap) + 1),
              Append(heap, ProtectedStringNew(value)), guard_scope, guard_protected)

\* o.zero() on any object made so far
ZeroCall(i) ==
    /\ i \in 1..Len(heap)
    /\ SetMem(Ret("zero", i), [heap EXCEPT ![i] = ZeroObject(@)],
              guard_scope, guard_protected)

\* with guard:
GuardEnter ==
    /\ guard_scope = "out"
    /\ SetMem(Ret("enter", FALSE), heap, "in", guard_protected)

\* guard.protect(value), inside the block or outside; a value that is not a
\* str raises TypeError, which inside the block leads to __exit__
GuardProtect(value) ==
    /\ guard_scope \in {"out", "in"}
    /\ IF value = None
       THEN SetMem(Ret("protect", "TypeError"), heap,
                   IF guard_scope = "in" THEN "raising" ELSE guard_scope, guard_protected)
       ELSE /\ Len(heap) < MaxObjects
            /\ SetMem(Ret("protect", Len(heap) + 1),
                      Append(heap, ProtectedStringNew(value[1])), guard_scope,
                      Append(guard_protected, Len(heap) + 1))

\* the block raises
GuardBodyRaises ==
    /\ guard_scope = "in"
    /\ SetMem(Ret("raise", FALSE), heap, "raising", guard_protected)

\* __exit__ at the end of the block or on the way of an exception out of it,
\* and cleanup() called directly
GuardExit ==
    /\ guard_scope \in {"in", "raising"}
    /\ SetMem(Ret("exit", [raised |-> guard_scope = "raising",
                           protected |-> guard_protected]),
              GuardCleanupSt(heap, guard_protected), "out", <<>>)

GuardCleanup ==
    /\ guard_scope = "out"
    /\ SetMem(Ret("cleanup", [raised |-> FALSE, protected |-> guard_protected]),
              GuardCleanupSt(heap, guard_protected), "out", <<>>)

NextMem ==
    \/ \E data \in SecretBytes : NewSecureBytes(data)
    \/ \E value \in SecretStrings : NewProtectedString(value)
    \/ \E i \in 1..MaxObjects : ZeroCall(i)
    \/ GuardEnter
    \/ \E value \in ProtectArgs : GuardProtect(value)
    \/ GuardBodyRaises
    \/ GuardExit
    \/ GuardCleanup

SpecMem == InitMem /\ [][NextMem]_vars

\* C23: after zero() on a SecureBytes or a ProtectedString the buffer reads as
\* zero bytes, as many as the object was made with; and when a MemoryGuard
\* block is left, at its end or by an exception, the buffer of every string
\* the guard protected reads so as well.
C23_Zeroed ==
    /\ ret.op = "zero" =>
          heap[ret.val].buf = Zeros(heap[ret.val].len)
    /\ ret.op = "exit" =>
          /\ guard_protected = <<>>
          /\ \A k \in 1..Len(ret.val.protected) :
                LET o == heap[ret.val.protected[k]]
                IN o.buf = Zeros(Len(o.raw))
    /\ \A i \in 1..Len(heap) :
          /\ Len(heap[i].buf) = heap[i].len
          /\ heap[i].klass = "ProtectedString" => heap[i].len = Len(heap[i].raw)

C23_Witness ==
    /\ ret.op = "exit"
    /\ ret.val.raised
    /\ ret.val.protected = <<1, 2>>
    /\ heap[2].raw = <<65, 195, 169>>
    /\ heap[2].buf = <<0, 0, 0>>

----------------------------------------------------------------------------
(* FileVault (config/vault.py): one vault file, two FileVault instances on   *)
(* it with the same CryptoManager.  The data are an insertion-ordered dict   *)
(* name -> entry; names and values are single characters, given by their     *)
(* code points.                                                              *)

VaultNames == {97, 98}
VaultValues == {120, 121}
VaultInstances == {1, 2}

\* the entry set_secret builds
VaultEntry(value, t) == [value |-> value, created_at |-> t, version |-> 1]

\* json.dumps(data).encode(): the text {"n":"v",created_at,version ...}, one
\* group of bytes per item
JsonItem(name, entry) ==
    <<34, name, 34, 58, 34, entry.value, 34, 44, 48 + entry.created_at, 44,
      48 + entry.version>>
ItemLen == Len(JsonItem(97, VaultEntry(120, 0)))
RECURSIVE JsonItems(_)
JsonItems(data) ==
    IF data = <<>> THEN <<>>
    ELSE JsonItem(Head(data)[1], Head(data)[2]) \o JsonItems(Tail(data))
JsonDumps(data) == <<123>> \o JsonItems(data) \o <<125>>

\* json.loads(text): the dict of a text json.dumps can have written,
\* JSONDecodeError for any other
JsonLoads(b) ==
    IF Len(b) < 2 \/ (Len(b) - 2) % ItemLen # 0 THEN Raise("JSONDecodeError")
    ELSE LET n == (Len(b) - 2) \div ItemLen
             item(k) == SubSeq(b, 2 + (k - 1) * ItemLen, 1 + k * ItemLen)
             parsed(k) == <<item(k)[2], [value |-> item(k)[6],
                                         created_at |-> item(k)[9] - 48,
                                         version |-> item(k)[11] - 48]>>
         IN IF /\ b[1] = 123
               /\ b[Len(b)] = 125
               /\ \A k \in 1..n : JsonItem(parsed(k)[1], parsed(k)[2]) = item(k)
            THEN Returns([k \in 1..n |-> parsed(k)])
            ELSE Raise("JSONDecodeError")

\* str.split(sep): the pieces of text between the separators, from position
\* from on, the piece in progress starting at start
RECURSIVE SplitFrom(_, _, _, _)
SplitFrom(text, sep, start, from) ==
    IF from > Len(text) THEN <<SubSeq(text, start, Len(text))>>
    ELSE IF text[from] = sep
    THEN <<SubSeq(text, start, from - 1)>> \o SplitFrom(text, sep, from + 1, from + 1)
    ELSE SplitFrom(text, sep, start, from + 1)
Split(text, sep) == SplitFrom(text, sep, 1, 1)

\* the one element of a set of one
The(S) == CHOOSE x \in S : TRUE

\* the body of _load's try once the file is split at the colons: bytes.fromhex
\* of the three pieces, decrypt, json.loads
VaultDecrypt(hc, hn, ht, cache) ==
    LET failed == [out |-> Raise("VaultError"), cache |-> cache]
    IN IF ~(IsHex(hc) /\ IsHex(hn) /\ IsHex(ht)) THEN failed
       ELSE The({IF decrypted_json.raised THEN failed
                 ELSE The({IF data.raised THEN failed
                           ELSE [out |-> data, cache |-> Some(data.value)] :
                           data \in {JsonLoads(decrypted_json.value)}}) :
                 decrypted_json \in
                     {DecryptData(encrypted, None) :
                      encrypted \in {EncryptedData(FromHex(hc), FromHex(hn),
                                                   FromHex(ht))}}})

\* FileVault._load: what it returns or raises, and the cache it leaves.  The
\* ciphertext is taken from split(":")[1], nonce and tag from split(":")[0]
VaultLoad(cache, file) ==
    IF cache # None THEN [out |-> Returns(cache[1]), cache |-> cache]
    ELSE IF file = None THEN [out |-> Returns(<<>>), cache |-> Some(<<>>)]
    ELSE The({IF Len(parts) < 2
              THEN [out |-> Raise("VaultError"), cache |-> cache]
              ELSE The({VaultDecrypt(hc, hn, ht, cache) :
                        hc \in {parts[2]},
                        hn \in {Slice(parts[1], 0, 24)},
                        ht \in {Slice(parts[1], 24, 56)}}) :
              parts \in {Split(file[1], ":")}})

\* the text _save writes for what encrypt returned
VaultText(encrypted) ==
    IF encrypted.raised THEN Raise("VaultError")
    ELSE Returns(HexOf(NonceOf(encrypted.value)) \o <<":">>
                 \o HexOf(TagOf(encrypted.value)) \o <<":">>
                 \o HexOf(CiphertextOf(encrypted.value)))

\* FileVault._save: the text it writes; nonce is what os.urandom returned
VaultSave(data, nonce) ==
    The({VaultText(encrypted) :
         encrypted \in {EncryptData(json_data, None, nonce) :
                        json_data \in {JsonDumps(data)}}})

\* SecretEntry(name, value), the other fields at their defaults
SecretEntry(name, value, created_at, version) ==
    [name |-> name, value |-> value, created_at |-> created_at, version |-> version]

InitVault ==
    /\ InitCommon
    /\ default_ttl = 0
    /\ default_max_uses = 1
    /\ environ = EmptyMap

SetVault(r, file, cache) ==
    /\ ret' = r
    /\ vault_file' = file
    /\ vault_cache' = cache
    /\ UNCHANGED <<now, audit, injVars, regVars, mtVars, logVars, memVars>>

\* FileVault.set_secret(name, value) on instance inst
SetSecret(inst, name, value, nonce) ==
    \E loaded \in {VaultLoad(vault_cache[inst], vault_file)} :
       IF loaded.out.raised
       THEN SetVault(Ret("set_secret", [name |-> name, value |-> value,
                                        out |-> loaded.out, inst |-> inst]),
                     vault_file, [vault_cache EXCEPT ![inst] = loaded.cache])
       ELSE \E data \in {DictSet(loaded.out.value, name, VaultEntry(value, now))} :
            \E saved \in {VaultSave(data, nonce)} :
               IF saved.raised
               THEN SetVault(Ret("set_secret", [name |-> name, value |-> value,
                                                out |-> saved, inst |-> inst]),
                             vault_file, [vault_cache EXCEPT ![inst] = Some(data)])
               ELSE SetVault(Ret("set_secret",
                                 [name |-> name, value |-> value,
                                  out |-> Returns(SecretEntry(name, value, None, None)),
                                  inst |-> inst]),
                             Some(saved.value), [vault_cache EXCEPT ![inst] = Some(data)])

\* what get_secret makes of what _load returned
GetSecretResult(loaded, name) ==
    IF loaded.out.raised THEN loaded.out
    ELSE IF ~DictHas(loaded.out.value, name) THEN Raise("VaultError")
    ELSE LET entry == DictGet(loaded.out.value, name)
         IN Returns(SecretEntry(name, entry.value, Some(entry.created_at),
                                Some(entry.version)))

\* FileVault.get_secret(name) on instance inst
GetSecret(inst, name) ==
    \E loaded \in {VaultLoad(vault_cache[inst], vault_file)} :
    \E out \in {GetSecretResult(loaded, name)} :
       SetVault(Ret("get_secret", [name |-> name, out |-> out, inst |-> inst]),
                vault_file, [vault_cache EXCEPT ![inst] = loaded.cache])

\* FileVault(path, crypto): a new instance takes the place of instance inst
Reopen(inst) ==
    /\ vault_cache' = [vault_cache EXCEPT ![inst] = None]
    /\ UNCHANGED <<now, ret, audit, injVars, regVars, mtVars, logVars, memVars, vault_file>>

NextVault ==
    \/ \E inst \in VaultInstances : \E name \in VaultNames : \E value \in VaultValues :
          \E nonce \in Nonces : SetSecret(inst, name, value, nonce)
    \/ \E inst \in VaultInstances : \E name \in VaultNames : GetSecret(inst, name)
    \/ \E inst \in VaultInstances : Reopen(inst)

SpecVault == InitVault /\ [][NextVault]_vars

\* C24: a secret stored with set_secret(name, value) is returned by
\* get_secret(name) with the same value, by the instance that stored it and
\* by a new FileVault on the same file with the same key: the file _save has
\* written is read back by _load.
C24_StoredSecretReadBack ==
    [][(/\ ret.op = "set_secret"
        /\ ~ret.val.out.raised
        /\ ret'.op = "get_secret"
        /\ ret'.val.name = ret.val.name
        /\ \/ ret'.val.inst = ret.val.inst
           \/ vault_cache[ret'.val.inst] = None)
       => /\ ~ret'.val.out.raised
          /\ ret'.val.out.value.value = ret.val.value]_vars

----------------------------------------------------------------------------
(* SandboxInjector with a pool of credentials of every scope, injected by    *)
(* two threads and swept by cleanup_expired.                                 *)

MaxPool == 2       \* credentials created in the pool
PoolIds == 1..MaxPool
PoolKeys == {None}

CreatePooled(args) ==
    /\ next_id < MaxPool
    /\ next_id' = next_id + 1
    /\ \E s \in {CreateCredentialSt(InjState, next_id + 1, args)} : SetInj(s)
    /\ ret' = Ret("create_credential", next_id + 1)
    /\ UNCHANGED <<now, default_ttl, default_max_uses, ctx, regVars, auxVars>>

NextPool ==
    \/ Tick
    \/ \E args \in CreateArgs : CreatePooled(args)
    \/ \E id \in PoolIds, k \in PoolKeys, t \in Threads : Inject(id, k, t)
    \/ CleanupExpired

\* SandboxInjector(default_ttl_seconds=1, default_max_uses=1) in a process
\* with an empty environment
InitPool ==
    /\ InitCommon
    /\ default_ttl = 1
    /\ default_max_uses = 1
    /\ environ = EmptyMap

SpecPool == InitPool /\ [][NextPool]_vars

\* C26: a successful inject changes only the surface of the credential's
\* scope.  Process: environment[key] = value and tracking[key] = id, no thread
\* map changes.  Thread: key -> value is written into the map of one thread,
\* the calling one, and neither the environment, nor the tracking map, nor
\* the map of any other thread changes.  Request: no environment, tracking or
\* thread map changes, the value is only returned.
C26_InjectWritesItsScopeOnly ==
    [][\A id \in DOMAIN credentials :
         (InjectStep(id) /\ ret'.val.success) =>
            LET c == credentials[id]
                key == ret'.val.environment_key
            IN /\ ret'.val.injected_value = Some(c.value)
               /\ c.scope = "process" =>
                     /\ environ' = MapPut(environ, key, c.value)
                     /\ injected_env_keys' = DictSet(injected_env_keys, key, id)
                     /\ thread_local' = thread_local
               /\ c.scope = "thread" =>
                     /\ environ' = environ
                     /\ injected_env_keys' = injected_env_keys
                     /\ \E t \in Threads :
                           /\ DOMAIN thread_local' = DOMAIN thread_local \cup {t}
                           /\ \A u \in DOMAIN thread_local \ {t} :
                                 thread_local'[u] = thread_local[u]
                           /\ thread_local'[t] =
                                 MapPut(IF t \in DOMAIN thread_local
                                        THEN thread_local[t] ELSE EmptyMap,
                                        key, c.value)
               /\ c.scope = "request" =>
                     /\ environ' = environ
                     /\ injected_env_keys' = injected_env_keys
                     /\ thread_local' = thread_local
      ]_vars

\* a thread-scope inject by one thread next to the map of the other thread
C26_Witness ==
    /\ ret.op = "inject"
    /\ ret.val.success
    /\ ret.val.credential_id = 2
    /\ 2 \in DOMAIN credentials
    /\ credentials[2].scope = "thread"
    /\ DOMAIN thread_local = {"t1", "t2"}
    /\ environ = EmptyMap
    /\ injected_env_keys = <<>>

\* a step that is a call of revoke, of cleanup, of cleanup_expired
InjRevokeStep == now' = now /\ ctx' = ctx /\ ret'.op = "revoke"
InjCleanupStep == now' = now /\ ctx' = ctx /\ ret'.op = "cleanup"
SweepStep == now' = now /\ ctx' = ctx /\ ret'.op = "cleanup_expired"

\* the pairs of an insertion-ordered dict
Pairs(d) == {d[i] : i \in 1..Len(d)}
\* the environment keys the tracking map binds to one of ids
KeysOf(tracking, ids) == {p[1] : p \in {q \in Pairs(tracking) : q[2] \in ids}}

\* C27: revoke(id) on a stored credential removes every binding that an inject
\* of that credential made, the process-environment keys it still owns and
\* the thread-scope entries alike, deletes the record and emits
\* credential_revoked; on an id that is not stored it returns false and
\* changes nothing.
C27_RevokeRemovesEveryBinding ==
    [][InjRevokeStep =>
         /\ ret'.val = FALSE =>
               /\ UNCHANGED <<environ, injected_env_keys, thread_local, credentials>>
               /\ audit' = <<>>
         /\ ret'.val = TRUE =>
               \E id \in DOMAIN credentials :
                  LET c == credentials[id]
                  IN /\ credentials' = MapDel(credentials, id)
                     /\ \A p \in Pairs(injected_env_keys') : p[2] # id
                     /\ \A k \in KeysOf(injected_env_keys, {id}) : k \notin DOMAIN environ'
                     /\ c.scope = "thread" =>
                           \A t \in DOMAIN thread_local' :
                              \A k \in DOMAIN thread_local'[t] :
                                 thread_local'[t][k] # c.value
                     /\ Len(audit') > 0
                     /\ audit'[Len(audit')].event_type = "credential_revoked"
      ]_vars

\* C28: cleanup(key) on a tracked key removes that binding, and emits
\* credential_cleaned if and only if no other tracked binding still maps to
\* the same credential id.
C28_CleanedIffLastBinding ==
    [][InjCleanupStep =>
         \A p \in Pairs(injected_env_keys) \ Pairs(injected_env_keys') :
            /\ p[1] \notin DOMAIN environ'
            /\ injected_env_keys' = DictDel(injected_env_keys, p[1])
            /\ (\E i \in 1..Len(audit') : audit'[i].event_type = "credential_cleaned")
               <=> ~(\E q \in Pairs(injected_env_keys') : q[2] = p[2])
      ]_vars

\* C29: cleanup(key) with a key that is not in the tracking map leaves the
\* environment, the tracking map and the credential store as they were.
C29_UntrackedCleanupChangesNothing ==
    [][(InjCleanupStep /\ injected_env_keys' = injected_env_keys) =>
          /\ environ' = environ
          /\ credentials' = credentials
      ]_vars

\* C30: cleanup_expired revokes exactly the stored credentials that are
\* expired or depleted when it is called: their records and their tracked
\* bindings go, the records and the bindings of the valid credentials stay
\* as they were, and the call returns the number of credentials revoked.
C30_SweepsExactlyTheInvalid ==
    [][SweepStep =>
         LET gone == {id \in DOMAIN credentials :
                         IsExpired(credentials[id]) \/ IsDepleted(credentials[id])}
         IN /\ DOMAIN credentials' = DOMAIN credentials \ gone
            /\ \A id \in DOMAIN credentials' : credentials'[id] = credentials[id]
            /\ injected_env_keys' =
                  SelectSeq(injected_env_keys, LAMBDA p : p[2] \notin gone)
            /\ environ' = [k \in DOMAIN environ \ KeysOf(injected_env_keys, gone) |->
                              environ[k]]
            /\ thread_local' = thread_local
            /\ ret'.val = Cardinality(gone)
      ]_vars

\* a sweep that revoked one credential and left a valid one, used once, with
\* its binding
C30_Witness ==
    /\ ret = Ret("cleanup_expired", 1)
    /\ DOMAIN credentials = {1}
    /\ IsValid(credentials[1])
    /\ credentials[1].use_count = 1
    /\ Len(injected_env_keys) = 1
    /\ injected_env_keys[1][2] = 1
    /\ DOMAIN environ = {injected_env_keys[1][1]}
    /\ next_id = 2

----------------------------------------------------------------------------
(* Further claims about the manager. *)

\* deque(maxlen=1000).append: the history after one more entry
Recorded(h, entry) ==
    IF Len(h) + 1 > HistoryMaxLen THEN Tail(Append(h, entry)) ELSE Append(h, entry)

\* C31: every verify_credential call on a registered credential, accepted or
\* rejected (a record that is not Active or whose TTL has lapsed included),
\* appends one entry to the credential's access history, and the history
\* never holds more than the window, the oldest entry leaving first.
C31_EveryVerifyRecorded ==
    [][\A id \in RegIds, value \in SecretValues :
         (VerifyStep(id, value) /\ Known(id)) =>
            /\ \E entry \in BOOLEAN :
                  access_history'[id] = Recorded(access_history[id], entry)
            /\ Len(access_history'[id]) <= HistoryMaxLen
      ]_vars

(* The manager with two records: registration, the clock, revocation,
   rotation and the rotation check. *)

MaxRot == 2                  \* register_credential calls per run
RotIds == 1..MaxRot

\* register_credential arguments: a record that is to be rotated and never
\* expires, and one that expires and is never to be rotated
RotArgs ==
    { <<NameDb, "p1", None, Some(1)>>,
      <<NameApi, "p2", Some(1), None>> }

RegisterRotated(args) ==
    /\ reg_next_id < MaxRot
    /\ reg_next_id' = reg_next_id + 1
    /\ ret' = Ret("register_credential", reg_next_id + 1)
    /\ \E s \in {RegisterSt(RegState, reg_next_id + 1, args)} : SetReg(s)
    /\ UNCHANGED <<now, leak_pc, injVars, auxVars>>

NextRot ==
    \/ RegTick
    \/ \E args \in RotArgs : RegisterRotated(args)
    \/ \E id \in RotIds, reason \in RevokeReasons : RevokeCredential(id, reason)
    \/ \E id \in RotIds : RotateCredential(id, "p2")
    \/ CheckRotationNeeded

SpecRot == InitReg /\ [][NextRot]_vars

\* the life of one record of either kind: registration, the clock,
\* verification, revocation, rotation and the rotation check
NextRenew ==
    \/ RegTick
    \/ \E args \in RotArgs : RegisterCredential(args)
    \/ \E id \in RegIds, value \in SecretValues : VerifyCredential(id, value)
    \/ \E id \in RegIds, reason \in RevokeReasons : RevokeCredential(id, reason)
    \/ \E id \in RegIds, value \in SecretValues : RotateCredential(id, value)
    \/ CheckRotationNeeded

SpecRenew == InitReg /\ [][NextRenew]_vars

CheckRotationStep ==
    /\ ret'.op = "check_rotation_needed"
    /\ now' = now
    /\ Idle /\ Idle'

\* the Active records whose rotation interval has run out
Due ==
    {id \in DOMAIN records :
        /\ records[id].status = "active"
        /\ records[id].rotation_interval # None
        /\ records[id].last_rotated # None
        /\ now > records[id].last_rotated[1] + records[id].rotation_interval[1]}

\* C32: check_rotation_needed moves exactly the Active records with
\* now > last_rotated + rotation_interval to PendingRotation and returns
\* exactly their ids; no hash, timestamp, leak, history or other record's
\* status changes, nothing is logged, and a second call made at once finds
\* nothing to move.
C32_CheckRotationNeeded ==
    [][CheckRotationStep =>
         /\ records' = [id \in DOMAIN records |->
                           IF id \in Due
                           THEN [records[id] EXCEPT !.status = "pending_rotation"]
                           ELSE records[id]]
         /\ {ret'.val[i] : i \in DOMAIN ret'.val} = Due
         /\ Len(ret'.val) = Cardinality(Due)
         /\ leaks' = leaks
         /\ access_history' = access_history
         /\ audit' = <<>>
         /\ Due' = {}
         /\ CheckRotationSt(RegState)' = RegState'
      ]_vars

\* a check that moved one record to PendingRotation and left an Active one,
\* whose interval ends at this instant, alone
C32_Witness ==
    /\ ret = Ret("check_rotation_needed", <<1>>)
    /\ DOMAIN records = {1, 2}
    /\ records[1].status = "pending_rotation"
    /\ records[2].status = "active"
    /\ records[2].rotation_interval # None
    /\ now = records[2].last_rotated[1] + records[2].rotation_interval[1]

----------------------------------------------------------------------------
(* AuditLogger, one caller, loggers with a buffer of one event and of two,  *)
(* with and without auto-flush, on a disk that may fail.                    *)

AutoConfigs ==
    {[log_file |-> TRUE, signing_key |-> None, filter_sensitive |-> TRUE,
      buffer_size |-> size, auto_flush |-> auto] :
        size \in 1..SmallBufferSize, auto \in BOOLEAN}

InitAuto ==
    /\ InitShared
    /\ log_cfg \in AutoConfigs
    /\ default_ttl = 0
    /\ default_max_uses = 1
    /\ environ = EmptyMap

SpecAuto == InitAuto /\ [][NextLog]_vars

AnyLogStep == now' = now /\ ret'.op = "log" /\ log_n' = log_n + 1

\* C33: with auto-flush on and buffer_size >= 1, the log call that brings the
\* number of buffered events to buffer_size (or finds it there already)
\* flushes, a log call below the threshold only buffers its event, and after
\* a log call that returns the buffer holds fewer than buffer_size events.
C33_AutoFlushAtThreshold ==
    [][(AnyLogStep /\ log_cfg.auto_flush /\ log_cfg.buffer_size >= 1) =>
          /\ ret'.val = "ok" => Len(log_buffer') < log_cfg.buffer_size
          /\ IF Len(log_buffer) + 1 >= log_cfg.buffer_size
             THEN \/ /\ ret'.val = "ok"
                     /\ log_buffer' = <<>>
                     /\ Len(log_store') = Len(log_store) + Len(log_buffer) + 1
                     /\ SubSeq(log_store', 1, Len(log_store)) = log_store
                     /\ log_store'[Len(log_store')].data.n = log_n'
                  \/ /\ ret'.val = "IOError"
                     /\ io_errors' = io_errors + 1
             ELSE /\ ret'.val = "ok"
                  /\ Len(log_buffer') = Len(log_buffer) + 1
                  /\ log_store' = log_store
                  /\ io_errors' = io_errors
      ]_vars

\* the second log call of a logger with a buffer of two has flushed both
\* events
C33_Witness ==
    /\ ret = Ret("log", "ok")
    /\ log_cfg.auto_flush
    /\ log_cfg.buffer_size = 2
    /\ log_n = 2
    /\ log_buffer = <<>>
    /\ Len(log_store) = 2
    /\ io_errors = 0

----------------------------------------------------------------------------
(* scan_for_leaks.  The call has returned when ret holds <<log_file,
   environment, "done", the leaks found>>. *)

ScanReturned == ret.op = "scan_for_leaks" /\ ret.val[3] = "done"

\* C34: every match scan_for_leaks flags becomes one report_leak call: when
\* the scan has returned, each record flagged by the environment scan or by
\* the scan of a readable log file is among the leaks found, the leaks found
\* are, one each and in order, the last leaks recorded, and each of their
\* credentials is Revoked; a log file that cannot be read takes nothing from
\* the matches of the environment.
C34_EveryMatchReported ==
    ScanReturned =>
        LET log_file == ret.val[1]
            environment == ret.val[2]
            found == ret.val[4]
            base == Len(leaks) - Len(found)
        IN /\ environment =>
                 \A id \in DOMAIN records : \A key \in DOMAIN environ :
                    EnvFlags(key, records[id]) =>
                       \E i \in DOMAIN found :
                           /\ found[i].credential_id = id
                           /\ found[i].leak_source = "environment"
                           /\ found[i].evidence = <<"env", key>>
           /\ \A id \in DOMAIN records :
                 LogFlags(log_file, records[id]) =>
                    \E i \in DOMAIN found :
                        /\ found[i].credential_id = id
                        /\ found[i].leak_source = "log"
           /\ base >= 0
           /\ \A i \in DOMAIN found :
                 /\ leaks[base + i] = [found[i] EXCEPT !.detected_at = leaks[base + i].detected_at]
                 /\ found[i].credential_id \in DOMAIN records
                 /\ records[found[i].credential_id].status = "revoked"

\* a scan of the environment and of a log file that cannot be read has
\* returned: the match of the environment is recorded and its credential
\* Revoked
C34_Witness ==
    /\ ScanReturned
    /\ ret.val[1] = "missing.log"
    /\ ret.val[2]
    /\ Len(ret.val[4]) = 1
    /\ ret.val[4][1].leak_source = "environment"
    /\ Len(leaks) = 1
    /\ records[leaks[1].credential_id].status = "revoked"

----------------------------------------------------------------------------
(* The injector with two credentials and one caller that uses every
   operation but inject_context, in a process with an empty environment. *)

TrackKeys == {None, KeyE}

\* create_credential arguments: process-scope credentials of one name and
\* different values
TrackArgs ==
    { <<<<"a">>, "v1", None, Some(2), "process">>,
      <<<<"a">>, "v2", Some(1), None, "process">> }

NextTrack ==
    \/ Tick
    \/ \E args \in TrackArgs : CreatePooled(args)
    \/ \E id \in PoolIds, k \in TrackKeys : Inject(id, k, "t1")
    \/ \E k \in InjKeys : Cleanup(k)
    \/ CleanupAll
    \/ \E id \in PoolIds : Revoke(id)
    \/ CleanupExpired

SpecTrack == InitPool /\ [][NextTrack]_vars

\* C35: every key of the tracking map maps to the id of a credential that is
\* still in the store, and the process environment holds that credential's
\* value at the key; a key two credentials were injected under belongs to
\* the one injected last.
C35_TrackedKeysAreLive ==
    \A i \in DOMAIN injected_env_keys :
        LET key == injected_env_keys[i][1]
            id == injected_env_keys[i][2]
        IN /\ id \in DOMAIN credentials
           /\ key \in DOMAIN environ
           /\ environ[key] = credentials[id].value
           /\ \A j \in DOMAIN injected_env_keys : injected_env_keys[j][1] = key => j = i

\* two process-scope credentials of different values have been injected
\* once each, and the one key tracked is tracked for credential 2, injected
\* last
C35_Witness ==
    /\ ret.op = "inject"
    /\ ret.val.success
    /\ ret.val.credential_id = 2
    /\ DOMAIN credentials = {1, 2}
    /\ credentials[1].scope = "process"
    /\ credentials[1].value # credentials[2].value
    /\ credentials[1].use_count = 1
    /\ credentials[2].use_count = 1
    /\ injected_env_keys = <<<<KeyE, 2>>>>
    /\ environ[KeyE] = credentials[2].value

----------------------------------------------------------------------------
(* Further claims about the injector. *)

RawValid(c) == ~RawExpired(c) /\ ~RawDepleted(c)

\* C36: invalidity of a temporary credential is permanent.  While a
\* credential is stored its use_count never decreases and its expires_at and
\* max_uses never change; a stored credential that is not valid is not valid
\* after any step that keeps it, inject fails for it, and the id of a
\* credential that left the store is never given to a new one.
C36_InvalidityIsPermanent ==
    [][/\ \A id \in DOMAIN credentials \cap DOMAIN credentials' :
            /\ credentials'[id].use_count >= credentials[id].use_count
            /\ credentials'[id].expires_at = credentials[id].expires_at
            /\ credentials'[id].max_uses = credentials[id].max_uses
            /\ ~RawValid(credentials[id]) => ~RawValid(credentials[id])'
       /\ \A id \in DOMAIN credentials :
            (InjectStep(id) /\ ~RawValid(credentials[id])) => ~ret'.val.success
       /\ \A id \in DOMAIN credentials' \ DOMAIN credentials : id > next_id
       /\ \A id \in DOMAIN credentials : id <= next_id
       /\ next_id' >= next_id
       /\ now' >= now
      ]_vars

\* an inject has just been refused for a stored credential that was used
\* before and is used up
C36_Witness ==
    /\ ret.op = "inject"
    /\ ~ret.val.success
    /\ ret.val.credential_id \in DOMAIN credentials
    /\ credentials[ret.val.credential_id].use_count >= 1
    /\ RawDepleted(credentials[ret.val.credential_id])
    /\ ~RawExpired(credentials[ret.val.credential_id])

\* C37: rotate_credential does not leave PendingRotation.  On a record in
\* PendingRotation it stores the hash of the new value and the instant of
\* the rotation and leaves the status as it is; verify_credential on such a
\* record returns false, whatever the value, and changes nothing; and a
\* record becomes Active again only by a rotation that finds it Revoked or
\* Expired, which PendingRotation leaves only for Revoked (through
\* Compromised, when a leak is reported).
C37_RotateKeepsPendingRotation ==
    [][\A id \in RegIds :
         /\ (Known(id) /\ Status(id) = "pending_rotation") =>
               /\ \A value \in SecretValues :
                     RotateStep(id, value) =>
                        /\ records' = [records EXCEPT
                                          ![id].value_hash = Sha(value),
                                          ![id].last_rotated = Some(now)]
                        /\ ~VerifyValid(RegState, id, value)'
               /\ \A value \in SecretValues :
                     VerifyStep(id, value) =>
                        /\ ~ret'.val.valid
                        /\ records' = records
                        /\ access_history' = access_history
               /\ Known(id)' =>
                     Status(id)' \in {"pending_rotation", "compromised", "revoked"}
         /\ (Known(id) /\ Known(id)' /\ Status(id) # "active" /\ Status(id)' = "active") =>
               /\ Status(id) \in {"revoked", "expired"}
               /\ \E value \in SecretValues : RotateStep(id, value)
      ]_vars

\* the new value of a record rotated in PendingRotation, whose TTL never
\* lapses, has just been refused
C37_Witness ==
    /\ ret.op = "verify_credential"
    /\ ~ret.val.valid
    /\ Known(ret.val.cred_id)
    /\ Status(ret.val.cred_id) = "pending_rotation"
    /\ records[ret.val.cred_id].expires_at = None
    /\ ret.val.value = "p2"
    /\ records[ret.val.cred_id].value_hash = Sha("p2")
    /\ records[ret.val.cred_id].last_rotated = Some(now)

\* C38: rotate_credential never changes expires_at.  Rotating a record whose
\* TTL has lapsed and that is Active, Expired or Revoked leaves it Active
\* with the hash of the new value and the TTL still lapsed, and a
\* verify_credential that finds an Active record with a lapsed TTL returns
\* false, the right value included, and moves the record to Expired.
C38_RotateKeepsExpiry ==
    [][\A id \in RegIds : \A value \in SecretValues :
         /\ (RotateStep(id, value) /\ Known(id)) =>
               /\ records'[id].expires_at = records[id].expires_at
               /\ (Lapsed(records[id]) /\ Status(id) \in {"active", "expired", "revoked"}) =>
                     /\ Status(id)' = "active"
                     /\ records'[id].value_hash = Sha(value)
                     /\ Lapsed(records[id])'
                     /\ ~VerifyValid(RegState, id, value)'
         /\ (/\ VerifyStep(id, value)
             /\ Known(id) /\ Status(id) = "active" /\ Lapsed(records[id])
             /\ records[id].value_hash = Sha(value)) =>
               /\ ~ret'.val.valid
               /\ records' = [records EXCEPT ![id].status = "expired"]
      ]_vars

\* a record rotated after its TTL had lapsed has just been refused with its
\* new value and is Expired again
C38_Witness ==
    /\ ret.op = "verify_credential"
    /\ ~ret.val.valid
    /\ Known(ret.val.cred_id)
    /\ Status(ret.val.cred_id) = "expired"
    /\ records[ret.val.cred_id].value_hash = Sha(ret.val.value)
    /\ records[ret.val.cred_id].expires_at # None
    /\ records[ret.val.cred_id].last_rotated[1] > records[ret.val.cred_id].expires_at[1]

----------------------------------------------------------------------------
(* Further claims about the AuditLogger. *)

\* C39: events reach query only through the log file.  Every event a query
\* returns is the content of a line of the file, so an event that is in the
\* buffer and in no line is not returned; a logger without a log file never
\* has a line: its flush, called or automatic, empties the buffer and
\* persists nothing, and its queries return nothing.
C39_QueryReadsTheFileOnly ==
    [][/\ (ret'.op = "query" /\ ~ret'.val.raised) =>
             \A i \in DOMAIN ret'.val.results :
                /\ \E j \in DOMAIN log_store' :
                      /\ Parses(log_store'[j])
                      /\ FromJson(log_store'[j]) = ret'.val.results[i]
                /\ ~(/\ \E k \in DOMAIN log_buffer' :
                           log_buffer'[k].n = ret'.val.results[i].n
                     /\ Persisted(ret'.val.results[i].n, log_store') = 0)
       /\ ~log_cfg.log_file =>
             /\ log_store = <<>>
             /\ log_store' = <<>>
             /\ FlushStep("ok") => log_buffer' = <<>>
             /\ (AnyLogStep /\ log_cfg.auto_flush
                 /\ Len(log_buffer) + 1 >= log_cfg.buffer_size) => log_buffer' = <<>>
             /\ ret'.op = "query" => ret'.val.results = <<>>
      ]_vars

\* a logger without a log file has accepted two events, its buffer is empty
\* again, and a query has returned nothing
C39_Witness ==
    /\ ret.op = "query"
    /\ ret.val.results = <<>>
    /\ ~ret.val.raised
    /\ ret.val.q.limit = DefaultLimit
    /\ ~log_cfg.log_file
    /\ log_n = 2
    /\ log_buffer = <<>>
    /\ log_store = <<>>

----------------------------------------------------------------------------
(* The convenience loggers of AuditLogger and what _filter_sensitive makes   *)
(* of their details.  A bool and an int are values of their own kinds; the   *)
(* filter looks at the key alone.                                            *)

BoolV(b) == [kind |-> "bool", v |-> b]
IntV(n) == [kind |-> "int", v |-> n]

KeySource == <<"s", "o", "u", "r", "c", "e">>
KeyFromCache == <<"f", "r", "o", "m", "_", "c", "a", "c", "h", "e">>
KeyIsSecret == <<"i", "s", "_", "s", "e", "c", "r", "e", "t">>
KeyEnvKey == <<"e", "n", "v", "_", "k", "e", "y">>
KeyUseCount == <<"u", "s", "e", "_", "c", "o", "u", "n", "t">>
KeyRemaining == <<"r", "e", "m", "a", "i", "n", "i", "n", "g">>
KeyType == <<"t", "y", "p", "e">>
KeyCredentialId == <<"c", "r", "e", "d", "e", "n", "t", "i", "a", "l", "_", "i", "d">>
KeyLeakSource == <<"l", "e", "a", "k", "_", "s", "o", "u", "r", "c", "e">>
KeySeverity == <<"s", "e", "v", "e", "r", "i", "t", "y">>
KeyApiKeyCap == <<"A", "P", "I", "_", "K", "e", "y">>

\* log_config_access(key, source, is_secret, from_cache): the arguments of log
ConfigAccessArgs(key, source, is_secret, from_cache) ==
    <<IF is_secret THEN "secret_read" ELSE "config_access", key, "read", "success",
      <<<<KeySource, StrV(source)>>,
        <<KeyFromCache, BoolV(from_cache)>>,
        <<KeyIsSecret, BoolV(is_secret)>>>>>>

\* log_credential_used(credential, env_key)
CredentialUsedArgs(name, use_count, max_uses, env_key) ==
    <<"credential_used", name, "use", "success",
      <<<<KeyEnvKey, StrV(env_key)>>,
        <<KeyUseCount, IntV(use_count)>>,
        <<KeyRemaining, IntV(max_uses - use_count)>>>>>>

\* log_credential_cleaned(credential, env_key)
CredentialCleanedArgs(name, env_key) ==
    <<"credential_cleaned", name, "cleanup", "success",
      <<<<KeyEnvKey, StrV(env_key)>>>>>>

\* log_security_violation(violation_type, details): {"type": ..., **details}
SecurityViolationArgs(violation_type, details) ==
    <<"security_violation", None, "violation", "denied",
      <<<<KeyType, StrV(violation_type)>>>> \o details>>

\* the details report_leak hands to log_security_violation
LeakDetails(cred_id, leak_source, severity) ==
    <<<<KeyCredentialId, StrV(cred_id)>>,
      <<KeyLeakSource, StrV(leak_source)>>,
      <<KeySeverity, StrV(severity)>>>>

\* what the callers pass
EnvKeyNames == {"E", "AGENT_TEMP_A"}
LeakIds == {"9a233edf", "17c0"}
MixedCaseArgs ==
    <<"authentication", "api", "login", "failure",
      <<<<KeyApiKeyCap, StrV("k")>>, <<KeyUser, StrV("alice")>>>>>>

RedactConfigs ==
    {[log_file |-> TRUE, signing_key |-> None, filter_sensitive |-> filter,
      buffer_size |-> SmallBufferSize, auto_flush |-> TRUE] : filter \in BOOLEAN}

InitRedact ==
    /\ InitShared
    /\ log_cfg \in RedactConfigs
    /\ default_ttl = 0
    /\ default_max_uses = 1
    /\ environ = EmptyMap

NextRedact ==
    \/ Tick
    \/ \E is_secret \in BOOLEAN, from_cache \in BOOLEAN :
          Log(ConfigAccessArgs("db", "env", is_secret, from_cache), None)
    \/ \E env_key \in EnvKeyNames, use_count \in 1..2 :
          Log(CredentialUsedArgs("a", use_count, 2, env_key), None)
    \/ \E env_key \in EnvKeyNames : Log(CredentialCleanedArgs("a", env_key), None)
    \/ \E cred_id \in LeakIds :
          Log(SecurityViolationArgs("credential_leak",
                                    LeakDetails(cred_id, "git", "critical")), None)
    \/ Log(MixedCaseArgs, None)
    \/ Flush(None)

SpecRedact == InitRedact /\ [][NextRedact]_vars

\* P holds of every event the logger holds, buffered or written
AllStored(P(_)) ==
    /\ \A i \in DOMAIN log_buffer : P(log_buffer[i])
    /\ \A j \in DOMAIN log_store : P(FromJson(log_store[j]))

IsRedacted(value) == value.kind = "str" /\ value.v = "***REDACTED***"

\* the event has a detail of this key, and each such detail is the marker
DetailRedacted(e, key) ==
    /\ \E i \in DOMAIN e.details : e.details[i][1] = key
    /\ \A i \in DOMAIN e.details : e.details[i][1] = key => IsRedacted(e.details[i][2])

\* the details of these keys are not the marker
DetailsKept(e, keys) ==
    \A i \in DOMAIN e.details : e.details[i][1] \in keys => ~IsRedacted(e.details[i][2])

\* C40: with filtering on, a detail is redacted when its key, in lower case,
\* contains a sensitive field: the env_key of every credential_used and
\* credential_cleaned event, the is_secret of every config-access event
\* and the credential_id of every security_violation event are stored as the
\* marker, as is a detail whose key holds a field in capitals; the details
\* whose keys contain no sensitive field keep their values.
C40_SubstringRedaction ==
    log_cfg.filter_sensitive =>
        AllStored(LAMBDA e :
            /\ e.event_type \in {"credential_used", "credential_cleaned"} =>
                  DetailRedacted(e, KeyEnvKey)
            /\ e.event_type \in {"config_access", "secret_read"} =>
                  DetailRedacted(e, KeyIsSecret)
            /\ e.event_type = "security_violation" =>
                  DetailRedacted(e, KeyCredentialId)
            /\ e.event_type = "authentication" =>
                  DetailRedacted(e, KeyApiKeyCap)
            /\ DetailsKept(e, {KeySource, KeyFromCache, KeyUseCount, KeyRemaining,
                               KeyType, KeyLeakSource, KeySeverity, KeyUser}))

\* a filtering logger has written a security_violation event and a
\* credential_used event, both redacted
C40_Witness ==
    /\ log_cfg.filter_sensitive
    /\ log_buffer = <<>>
    /\ Len(log_store) = 2
    /\ FromJson(log_store[1]).event_type = "security_violation"
    /\ DetailRedacted(FromJson(log_store[1]), KeyCredentialId)
    /\ FromJson(log_store[2]).event_type = "credential_used"
    /\ DetailRedacted(FromJson(log_store[2]), KeyEnvKey)

====
